---------------------------- MODULE Spec2Model ----------------------------
(***************************************************************************)
(* Scrape-and-reconcile engine of AllTheFreeGames.                         *)
(*                                                                         *)
(* Every scraper script (crawler.py, steam.py, gog_giveaway.py,            *)
(* gog_freeGameCollection.py, gog.py, epic.py) is a process of its own     *)
(* that loads a page, extracts candidate records {title, url, imageUrl},   *)
(* resolves an id for each and reconciles the candidates against the       *)
(* Firestore collection of its source.                                     *)
(*                                                                         *)
(* Python strings are sequences of one-character strings, so that          *)
(* sanitize(), str.lower(), str.replace(), str.strip() and the regular     *)
(* expressions of the id resolution are computed character by character.   *)
(***************************************************************************)
EXTENDS Integers, Sequences, FiniteSets, TLC

VARIABLES
    pipeline,   \* the scraper script this process runs
    store,      \* the documents of the pipeline's collection: id -> document
    clock,      \* datetime.now(timezone.utc), as a counter of the stamps taken
    last,       \* what the most recent run was given and what it did
    query,      \* a record handed to the id resolution, and the ids it got
    limiter,    \* a request rate limiter, its callers and the time of day
    job,        \* the run of a script in progress, statement by statement
    shared,     \* the collections of the database and the scripts that ran on them
    news,       \* the new-games newsletter: its checkpoint, the offers, the mail counter
    mail,       \* the mail counter file and the MailCounter objects of the two newsletter jobs
    scroll,     \* a scroll-to-load loop, the page it scrolls and its iteration
    element,    \* a candidate element, what its title reads would return, and the read of the script
    over,       \* two requests running the pass of one script on one collection, statement by statement
    subs        \* the subscriber collection, the last request on it and the newsletter job reading it

vars == <<pipeline, store, clock, last, query, limiter, job, shared, news, mail, scroll, element, over, subs>>

\* What the scrapers and the id resolution leave alone.
scrapeFrame == <<limiter, job, shared, news, mail, scroll, element, over, subs>>

\* The state of the scrapers and of the id resolution.
scrapeVars == <<pipeline, store, clock, last, query>>
limiterFrame == <<scrapeVars, job, shared, news, mail, scroll, element, over, subs>>
jobFrame == <<scrapeVars, limiter, shared, news, mail, scroll, element, over, subs>>
sharedFrame == <<scrapeVars, limiter, job, news, mail, scroll, element, over, subs>>
newsFrame == <<scrapeVars, limiter, job, shared, mail, scroll, element, over, subs>>
mailFrame == <<scrapeVars, limiter, job, shared, news, scroll, element, over, subs>>
scrollFrame == <<scrapeVars, limiter, job, shared, news, mail, element, over, subs>>
elementFrame == <<scrapeVars, limiter, job, shared, news, mail, scroll, over, subs>>
overFrame == <<scrapeVars, limiter, job, shared, news, mail, scroll, element, subs>>
subsFrame == <<scrapeVars, limiter, job, shared, news, mail, scroll, element, over>>

(***************************************************************************)
(* Bounds of the model.                                                    *)
(***************************************************************************)
MaxTitleLen == 3
MaxRows == 2
MaxClock == 3

(***************************************************************************)
(* String constants of the source.                                         *)
(***************************************************************************)
UNKNOWN_TITLE == <<"U", "n", "k", "n", "o", "w", "n", " ", "T", "i", "t", "l", "e">>
NO_URL_FOUND == <<"N", "o", " ", "U", "R", "L", " ", "F", "o", "u", "n", "d">>
NO_IMAGE_FOUND == <<"N", "o", " ", "I", "m", "a", "g", "e", " ", "F", "o", "u", "n", "d">>
EPIC_NO_URL == <<"N", "o", " ", "U", "R", "L">>
EPIC_NO_LINK == <<"N", "o", " ", "l", "i", "n", "k", " ", "f", "o", "u", "n", "d", ".">>
EPIC_NO_IMAGE == <<"N", "o", " ", "i", "m", "a", "g", "e", " ", "f", "o", "u", "n", "d", ".">>
HTTP == <<"h", "t", "t", "p">>
HTTPS_COLON == <<"h", "t", "t", "p", "s", ":">>
PRIME_HOST == <<"h", "t", "t", "p", "s", ":", "/", "/", "g", "a", "m", "i", "n", "g", ".", "a", "m", "a", "z", "o", "n", ".", "c", "o", "m">>
GOG_HOST == <<"h", "t", "t", "p", "s", ":", "/", "/", "w", "w", "w", ".", "g", "o", "g", ".", "c", "o", "m">>
EPIC_HOST == <<"h", "t", "t", "p", "s", ":", "/", "/", "s", "t", "o", "r", "e", ".", "e", "p", "i", "c", "g", "a", "m", "e", "s", ".", "c", "o", "m">>
PRIME_PREFIX == <<"/", "g", "a", "m", "e", "s", "/">>
GOG_GAME_PREFIX == <<"/", "e", "n", "/", "g", "a", "m", "e", "/">>
GOG_GIVEAWAY_PREFIX == <<"/", "g", "i", "v", "e", "a", "w", "a", "y", "/">>
STEAM_PREFIX == <<"/", "a", "p", "p", "/">>

\* Python's None, as a value that is no string of characters.
None == <<"None">>

LowerLetters == <<"a", "b", "c", "d", "e", "f", "g", "h", "i", "j", "k", "l", "m", "n", "o", "p", "q", "r", "s", "t", "u", "v", "w", "x", "y", "z">>
UpperLetters == <<"A", "B", "C", "D", "E", "F", "G", "H", "I", "J", "K", "L", "M", "N", "O", "P", "Q", "R", "S", "T", "U", "V", "W", "X", "Y", "Z">>
Digits == <<"0", "1", "2", "3", "4", "5", "6", "7", "8", "9">>

Range(s) == {s[i] : i \in DOMAIN s}

\* The character class [a-zA-Z0-9_-] of sanitize().
WordChars == Range(LowerLetters) \cup Range(UpperLetters) \cup Range(Digits) \cup {"_", "-"}

(***************************************************************************)
(* Python string operations.                                               *)
(***************************************************************************)
\* str.lower(), one character.
LowerChar(c) ==
    IF c \in Range(UpperLetters)
    THEN LowerLetters[CHOOSE i \in DOMAIN UpperLetters : UpperLetters[i] = c]
    ELSE c

\* str.lower()
ToLower(s) == [i \in DOMAIN s |-> LowerChar(s[i])]

\* str.replace(' ', '_')
ReplaceSpaces(s) == [i \in DOMAIN s |-> IF s[i] = " " THEN "_" ELSE s[i]]

\* str.strip(): leading and trailing whitespace removed.
RECURSIVE LStrip(_)
LStrip(s) == IF s # <<>> /\ Head(s) = " " THEN LStrip(Tail(s)) ELSE s

RECURSIVE RStrip(_, _)
RStrip(s, c) ==
    IF s # <<>> /\ s[Len(s)] = c THEN RStrip(SubSeq(s, 1, Len(s) - 1), c) ELSE s

Strip(s) == RStrip(LStrip(s), " ")

\* str.startswith(p)
StartsWith(s, p) == Len(s) >= Len(p) /\ SubSeq(s, 1, Len(p)) = p

\* Least index >= from at which p occurs in s, 0 when there is none.
RECURSIVE Find(_, _, _)
Find(s, p, from) ==
    IF from + Len(p) - 1 > Len(s) THEN 0
    ELSE IF SubSeq(s, from, from + Len(p) - 1) = p THEN from
    ELSE Find(s, p, from + 1)

\* Least index >= from of the character c in s, 0 when there is none.
RECURSIVE IndexOf(_, _, _)
IndexOf(s, c, from) ==
    IF from > Len(s) THEN 0
    ELSE IF s[from] = c THEN from
    ELSE IndexOf(s, c, from + 1)

\* Greatest index of the character c in s, 0 when there is none.
RECURSIVE LastIndexOf(_, _, _)
LastIndexOf(s, c, upto) ==
    IF upto < 1 THEN 0
    ELSE IF s[upto] = c THEN upto
    ELSE LastIndexOf(s, c, upto - 1)

\* Length of the longest run of characters of class cls starting at from.
RECURSIVE RunLen(_, _, _)
RunLen(s, cls, from) ==
    IF from > Len(s) \/ s[from] \notin cls THEN 0
    ELSE 1 + RunLen(s, cls, from + 1)

\* re.sub(r'[^a-zA-Z0-9_-]+', '_', text): every maximal run of characters
\* outside the class becomes one underscore.
RECURSIVE SanitizeFrom(_, _, _)
SanitizeFrom(s, i, inRun) ==
    IF i > Len(s) THEN <<>>
    ELSE IF s[i] \in WordChars THEN <<s[i]>> \o SanitizeFrom(s, i + 1, FALSE)
    ELSE IF inRun THEN SanitizeFrom(s, i + 1, TRUE)
    ELSE <<"_">> \o SanitizeFrom(s, i + 1, TRUE)

sanitize(text) == SanitizeFrom(text, 1, FALSE)

(***************************************************************************)
(* The regular expressions of the id resolution.                           *)
(***************************************************************************)
NoMatch == [matched |-> FALSE, group |-> <<>>]

\* re.search(prefix + r'(.+?)(?:\?|$)', url): the leftmost occurrence of
\* prefix followed by at least one character; the lazy group takes one
\* character and then stops before the first '?' or at the end.
SlugSearch(prefix, url) ==
    LET i == Find(url, prefix, 1)
        rest == SubSeq(url, i + Len(prefix), Len(url))
        q == IndexOf(rest, "?", 2)
    IN  IF i = 0 \/ rest = <<>> THEN NoMatch
        ELSE [matched |-> TRUE,
              group |-> IF q = 0 THEN rest ELSE SubSeq(rest, 1, q - 1)]

\* re.search(r'/app/\d+/([^/]+)/', url)
RECURSIVE SteamSearchFrom(_, _)
SteamSearchFrom(url, from) ==
    LET i == Find(url, STEAM_PREFIX, from)
        d == RunLen(url, Range(Digits), i + Len(STEAM_PREFIX))
        g == i + Len(STEAM_PREFIX) + d + 1
        e == IndexOf(url, "/", g)
    IN  IF i = 0 THEN NoMatch
        ELSE IF /\ d >= 1
                /\ g - 1 <= Len(url) /\ url[g - 1] = "/"
                /\ e > g
             THEN [matched |-> TRUE, group |-> SubSeq(url, g, e - 1)]
             ELSE SteamSearchFrom(url, i + 1)

SteamSearch(url) == SteamSearchFrom(url, 1)

\* url.rstrip('/').split('/')[-1]
LastSegment(url) ==
    LET u == RStrip(url, "/")
    IN  SubSeq(u, LastIndexOf(u, "/", Len(u)) + 1, Len(u))

(***************************************************************************)
(* The source pipelines and their collections.                             *)
(***************************************************************************)
Pipelines == {"prime", "steam", "gog_giveaway", "gog_collection", "gog", "epic"}

CollectionOf(p) ==
    CASE p = "prime" -> "prime_free_games"
      [] p = "steam" -> "steam_free_games"
      [] p = "gog_giveaway" -> "gog_giveaway"
      [] p = "gog_collection" -> "gog_free_games"
      [] p = "gog" -> "gog_free_games"
      [] p = "epic" -> "epic_free_games"

\* The title-based fallback id.
TitleId(title) == sanitize(ToLower(ReplaceSpaces(title)))

\* An id resolution that never looks at the url.
GameId_titleOnly(p, game) == TitleId(game.title)

\* game_id = sanitize(match.group(1)) if match else the title-based id.
SlugId(match, title) ==
    IF match.matched THEN sanitize(match.group) ELSE TitleId(title)

\* steam.py: game_id = match.group(1) if match else the title-based id.
SteamId(match, title) ==
    IF match.matched THEN match.group ELSE TitleId(title)

\* The id of a candidate, as each scraper derives it.
GameId(p, game) ==
    CASE p = "prime" -> SlugId(SlugSearch(PRIME_PREFIX, game.url), game.title)
      [] p \in {"gog_giveaway", "gog_collection"} ->
           SlugId(SlugSearch(GOG_GAME_PREFIX, game.url), game.title)
      [] p = "gog" -> SlugId(SlugSearch(GOG_GIVEAWAY_PREFIX, game.url), game.title)
      [] p = "steam" -> SteamId(SteamSearch(game.url), game.title)
      [] p = "epic" ->
           IF game.url # <<>> /\ game.url # EPIC_NO_URL
           THEN LastSegment(game.url)
           ELSE sanitize(ReplaceSpaces(ToLower(game.title)))

(***************************************************************************)
(* Exceptions.  Playwright reports a timeout with its own class            *)
(* playwright.async_api.TimeoutError, which the scrapers import under the  *)
(* name PlaywrightTimeoutError; it derives from playwright's Error and     *)
(* from Exception, not from the builtin TimeoutError.                      *)
(***************************************************************************)
PlaywrightTimeoutError == "PlaywrightTimeoutError"

\* Whether an `except <handler>` clause catches an exception of class exc.
Catches(handler, exc) == handler = "Exception" \/ handler = exc

(***************************************************************************)
(* The persisted collection.  Firestore streams a collection in ascending  *)
(* order of the document ids, which is the order in which a scraper        *)
(* builds existing_games and later deletes what is left in it.            *)
(* AsciiOrder lists the characters used here by code point.                *)
(***************************************************************************)
AsciiOrder ==
    <<" ", "!", ",", "-", ".", "/", "0", "1", "2", "3", "4", "5", "6", "7", "8", "9",
      ":", "?", "A", "B", "C", "D", "E", "F", "G", "H", "I", "J", "K", "L", "M", "N",
      "O", "P", "Q", "R", "S", "T", "U", "V", "W", "X", "Y", "Z", "_", "a", "b", "c",
      "d", "e", "f", "g", "h", "i", "j", "k", "l", "m", "n", "o", "p", "q", "r", "s",
      "t", "u", "v", "w", "x", "y", "z">>

CharRank(c) == CHOOSE i \in DOMAIN AsciiOrder : AsciiOrder[i] = c

RECURSIVE LexLeq(_, _)
LexLeq(a, b) ==
    IF a = <<>> THEN TRUE
    ELSE IF b = <<>> THEN FALSE
    ELSE IF Head(a) = Head(b) THEN LexLeq(Tail(a), Tail(b))
    ELSE CharRank(Head(a)) < CharRank(Head(b))

\* The ids of S in the order of collection_ref.stream().
RECURSIVE StreamOrder(_)
StreamOrder(S) ==
    IF S = {} THEN <<>>
    ELSE LET m == CHOOSE x \in S : \A y \in S : LexLeq(x, y)
         IN  <<m>> \o StreamOrder(S \ {m})

EmptyStore == [id \in {} |-> None]

\* A set() whose write is lost.
SetDoc_lost(st, id, doc) == st

\* collection_ref.document(id).set(doc)
SetDoc(st, id, doc) ==
    [x \in DOMAIN st \cup {id} |-> IF x = id THEN doc ELSE st[x]]

\* A delete() that leaves the document in place.
DeleteDoc_kept(st, id) == st

\* collection_ref.document(id).delete()
DeleteDoc(st, id) == [x \in DOMAIN st \ {id} |-> st[x]]

\* A store operation that raises: the n-th call of op in the run.
NoFault == [op |-> "none", n |-> 0]
Faults ==
    {NoFault, [op |-> "stream", n |-> 1]}
        \cup {[op |-> "set", n |-> k] : k \in 1..MaxRows}
        \cup {[op |-> "delete", n |-> k] : k \in 1..2}

(***************************************************************************)
(* Extraction.  What a scraper reads for one field of one page element is  *)
(* a text, nothing (a missing attribute, an empty text) or a timeout of    *)
(* the read.                                                               *)
(***************************************************************************)
Text(v) == [k |-> "text", v |-> v]
Nothing == [k |-> "none", v |-> <<>>]
Timeout == [k |-> "timeout", v |-> <<>>]

\* The value of a field whose read raised and was not caught.
Raised == <<"raise">>

\* A read that timed out inside `try: ... except <handler>: <fallback>`.
OnTimeout(handler, fallback) ==
    IF Catches(handler, PlaywrightTimeoutError) THEN fallback ELSE Raised

\* url = f'{host}{url}' unless url.startswith('http')
Absolute(host, url) == IF StartsWith(url, HTTP) THEN url ELSE host \o url

\* The part of s before the first c: s.split(c)[0]
Before(s, c) ==
    LET i == IndexOf(s, c, 1) IN IF i = 0 THEN s ELSE SubSeq(s, 1, i - 1)

ExtractTitle(p, f) ==
    CASE p = "prime" ->
           IF f.k = "timeout" THEN OnTimeout("TimeoutError", UNKNOWN_TITLE)
           ELSE Strip(f.v)
      [] p = "steam" ->
           IF f.k = "timeout" THEN OnTimeout("TimeoutError", UNKNOWN_TITLE)
           ELSE IF Strip(f.v) = <<>> THEN UNKNOWN_TITLE ELSE Strip(f.v)
      [] p = "gog_giveaway" ->
           IF f.k = "timeout" THEN Raised
           ELSE IF f.k = "none" THEN UNKNOWN_TITLE
           ELSE Strip(f.v)
      [] p \in {"gog_collection", "gog"} ->
           IF f.k = "timeout"
           THEN OnTimeout("PlaywrightTimeoutError", UNKNOWN_TITLE)
           ELSE Strip(f.v)
      [] p = "epic" ->
           IF f.k = "timeout" THEN OnTimeout("TimeoutError", UNKNOWN_TITLE)
           ELSE f.v

ExtractUrl(p, f) ==
    CASE p = "prime" ->
           IF f.k = "timeout" THEN OnTimeout("Exception", NO_URL_FOUND)
           ELSE IF f.k = "none" THEN NO_URL_FOUND
           ELSE Absolute(PRIME_HOST, f.v)
      [] p = "steam" ->
           IF f.k = "timeout" THEN OnTimeout("Exception", NO_URL_FOUND)
           ELSE IF f.k = "text" /\ StartsWith(f.v, HTTP) THEN f.v
           ELSE NO_URL_FOUND
      [] p = "gog_giveaway" ->
           IF f.k = "timeout" THEN Raised
           ELSE IF f.k = "none" THEN NO_URL_FOUND
           ELSE f.v
      [] p \in {"gog_collection", "gog"} ->
           IF f.k = "timeout"
           THEN OnTimeout("PlaywrightTimeoutError", NO_URL_FOUND)
           ELSE IF f.k = "none" THEN None
           ELSE Absolute(GOG_HOST, f.v)
      [] p = "epic" ->
           IF f.k = "timeout" THEN OnTimeout("TimeoutError", EPIC_NO_LINK)
           ELSE IF f.k = "none" THEN EPIC_NO_URL
           ELSE Absolute(EPIC_HOST, f.v)

ExtractImage(p, f) ==
    CASE p \in {"prime", "steam"} ->
           IF f.k = "timeout" THEN OnTimeout("Exception", NO_IMAGE_FOUND)
           ELSE IF f.k = "none" THEN NO_IMAGE_FOUND
           ELSE f.v
      [] p = "gog_giveaway" ->
           IF f.k = "timeout" THEN Raised
           ELSE IF f.k = "none" THEN NO_IMAGE_FOUND
           ELSE f.v
      [] p = "gog_collection" ->
           IF f.k = "timeout"
           THEN OnTimeout("PlaywrightTimeoutError", NO_IMAGE_FOUND)
           ELSE IF f.k = "none" THEN NO_IMAGE_FOUND
           ELSE HTTPS_COLON \o Before(Strip(Before(f.v, ",")), " ")
      [] p = "gog" ->
           IF f.k = "timeout"
           THEN OnTimeout("PlaywrightTimeoutError", NO_IMAGE_FOUND)
           ELSE IF f.k = "none" THEN NO_IMAGE_FOUND
           ELSE f.v
      [] p = "epic" ->
           IF f.k = "timeout" THEN OnTimeout("Exception", EPIC_NO_IMAGE)
           ELSE IF f.k = "none" THEN EPIC_NO_IMAGE
           ELSE f.v

\* The extraction loop: games_data, or raised when a read raised out of it.
RECURSIVE ExtractRows(_, _, _, _)
ExtractRows(p, rows, i, games) ==
    IF i > Len(rows) THEN [raised |-> FALSE, games |-> games]
    ELSE LET t == ExtractTitle(p, rows[i].title)
             u == ExtractUrl(p, rows[i].url)
             m == ExtractImage(p, rows[i].img)
         IN  IF Raised \in {t, u, m}
             THEN [raised |-> TRUE, games |-> <<>>]
             ELSE ExtractRows(p, rows, i + 1,
                      Append(games, [title |-> t, url |-> u, imageUrl |-> m]))

(***************************************************************************)
(* Reconciliation.                                                         *)
(***************************************************************************)
\* The "Skipping invalid game data" test.
IsInvalid(p, game) ==
    IF p = "epic"
    THEN /\ game.title = UNKNOWN_TITLE
         /\ game.url = EPIC_NO_LINK
         /\ game.imageUrl = EPIC_NO_IMAGE
    ELSE /\ game.title = UNKNOWN_TITLE
         /\ game.url = NO_URL_FOUND
         /\ game.imageUrl = NO_IMAGE_FOUND

Document(game, now) ==
    [title |-> game.title, url |-> game.url, imageUrl |-> game.imageUrl,
     createdAt |-> now]

\* The body of `for game in games_data` for a candidate whose id is game_id;
\* acc.existing is the dict existing_games.
AddOrKeep(acc, game, game_id, fault) ==
    IF game_id \notin acc.existing
    THEN IF fault = [op |-> "set", n |-> acc.sets + 1]
         THEN [acc EXCEPT !.raised = TRUE, !.storeError = TRUE]
         ELSE [acc EXCEPT
                  !.store = SetDoc(@, game_id, Document(game, acc.clock + 1)),
                  !.clock = @ + 1,
                  !.notify = Append(@, Document(game, acc.clock + 1)),
                  !.sets = @ + 1]
    ELSE [acc EXCEPT !.existing = @ \ {game_id}]

\* One candidate of `for game in games_data`.
AddStep(p, acc, game, fault) ==
    IF IsInvalid(p, game) THEN acc
    ELSE IF game.url = None
    THEN [acc EXCEPT !.raised = TRUE]     \* re.search(pattern, None)
    ELSE AddOrKeep(acc, game, GameId(p, game), fault)

\* for game in games_data: ...
RECURSIVE AddLoop(_, _, _, _, _)
AddLoop(p, games, i, acc, fault) ==
    IF i > Len(games) \/ acc.raised THEN acc
    ELSE AddLoop(p, games, i + 1, AddStep(p, acc, games[i], fault), fault)

\* for game_id in existing_games: collection_ref.document(game_id).delete()
RECURSIVE DeleteLoop(_, _, _, _)
DeleteLoop(ids, k, acc, fault) ==
    IF k > Len(ids) \/ acc.raised THEN acc
    ELSE IF fault = [op |-> "delete", n |-> k]
    THEN [acc EXCEPT !.raised = TRUE, !.storeError = TRUE]
    ELSE DeleteLoop(ids, k + 1,
             [acc EXCEPT !.store = DeleteDoc(@, ids[k]),
                         !.removed = Append(@, ids[k])],
             fault)

\* The state of a pass before its first store operation.
PassStart(st, clk) ==
    [existing |-> DOMAIN st, store |-> st, clock |-> clk, notify |-> <<>>,
     removed |-> <<>>, sets |-> 0, raised |-> FALSE, storeError |-> FALSE]

\* What is left in existing_games after the loop over games_data is deleted.
DeleteLeftovers(acc, fault) ==
    DeleteLoop(StreamOrder(acc.existing), 1, acc, fault)

\* Read the collection once, add what is new, delete what is left over.
Reconcile(p, games, st, clk, fault) ==
    IF fault.op = "stream"
    THEN [PassStart(st, clk) EXCEPT !.raised = TRUE, !.storeError = TRUE]
    ELSE DeleteLeftovers(AddLoop(p, games, 1, PassStart(st, clk), fault), fault)

\* steam.py: status_ref.set(...) after the documents are deleted; the
\* status document lives in another collection.
SetStatus(deleted, fault) ==
    IF ~deleted.raised /\ fault = [op |-> "set", n |-> 1]
    THEN [deleted EXCEPT !.raised = TRUE, !.storeError = TRUE]
    ELSE deleted

\* steam.py: every document is deleted and the status document is
\* written; an exception is caught inside and reported by email.
delete_all_firestore_entries(st, clk, fault) ==
    IF fault.op = "stream"
    THEN [PassStart(st, clk) EXCEPT !.raised = TRUE, !.storeError = TRUE]
    ELSE SetStatus(DeleteLoop(StreamOrder(DOMAIN st), 1, PassStart(st, clk), fault),
                   fault)

(***************************************************************************)
(* One run of a scraper: what it leaves in the store and what it reports.  *)
(*   outcome     "done", "returned" (an early return) or "failed" (the     *)
(*               run ended in its exception handler)                       *)
(*   games       games_data, the extracted candidates                      *)
(*   reconciled  the pass over the collection ran to its end               *)
(*   reports     error emails sent,  mails  new-offer emails sent          *)
(***************************************************************************)
Result(outcome, games, extracted, pass, reconciled, reports, mails) ==
    [outcome |-> outcome, games |-> games, extracted |-> extracted,
     store |-> pass.store, clock |-> pass.clock, notify |-> pass.notify,
     removed |-> pass.removed, sets |-> pass.sets,
     storeError |-> pass.storeError, reconciled |-> reconciled,
     reports |-> reports, mails |-> mails]

\* The run ended in `except Exception` before any store operation.
Failed(st, clk) ==
    Result("failed", <<>>, FALSE, PassStart(st, clk), FALSE, 1, 0)

Mail(notify_games) == IF notify_games # <<>> THEN 1 ELSE 0

\* The emails a completed run sends for its new offers; gog.py sends the
\* notification in its try block and again in finally.
Notified(p, notify_games) ==
    CASE p \in {"prime", "gog_collection", "epic"} -> Mail(notify_games)
      [] p = "gog" -> 2 * Mail(notify_games)
      [] p \in {"steam", "gog_giveaway"} -> 0

\* The end of a run whose pass over the collection is r: the exception
\* handler when a call of the pass raised, the notification otherwise.
Finish(p, games, r) ==
    IF r.raised
    THEN Result("failed", games, TRUE, r, FALSE, 1,
                IF p = "gog" THEN Mail(r.notify) ELSE 0)
    ELSE Result(IF p = "gog_giveaway" /\ games = <<>> THEN "returned" ELSE "done",
                games, TRUE, r, TRUE, 0, Notified(p, r.notify))

\* A run from games_data on, x being the outcome of the extraction loop.
ReconcileExtracted(p, x, st, clk, fault) ==
    IF x.raised THEN Failed(st, clk)
    ELSE Finish(p, x.games, Reconcile(p, x.games, st, clk, fault))

\* crawler.py
scrape_prime_gaming(page, st, clk, fault) ==
    IF page.load = "nav_timeout" THEN Failed(st, clk)
    ELSE IF page.load = "container_timeout"
    THEN IF Catches("TimeoutError", PlaywrightTimeoutError)
         THEN Result("returned", <<>>, FALSE, PassStart(st, clk), FALSE, 0, 0)
         ELSE Failed(st, clk)
    ELSE ReconcileExtracted("prime", ExtractRows("prime", page.rows, 1, <<>>),
                            st, clk, fault)

\* steam.py: the run after delete_all_firestore_entries(), which catches
\* and reports its own exceptions.
Wiped(wipe, extracted) ==
    Result("returned", <<>>, extracted, wipe, ~wipe.raised,
           IF wipe.raised THEN 1 ELSE 0, 0)

\* steam.py: `if not games_data` and the reconciliation.
steam_games_data(x, st, clk, fault) ==
    IF ~x.raised /\ x.games = <<>>
    THEN Wiped(delete_all_firestore_entries(st, clk, fault), TRUE)
    ELSE ReconcileExtracted("steam", x, st, clk, fault)

\* steam.py
scrape_steam(page, st, clk, fault) ==
    IF page.load = "nav_timeout" THEN Failed(st, clk)
    ELSE IF page.load = "zero_label"
    THEN Wiped(delete_all_firestore_entries(st, clk, fault), FALSE)
    ELSE IF page.load = "container_timeout"
    THEN IF Catches("TimeoutError", PlaywrightTimeoutError)
         THEN Wiped(delete_all_firestore_entries(st, clk, fault), FALSE)
         ELSE Failed(st, clk)
    ELSE steam_games_data(ExtractRows("steam", page.rows, 1, <<>>), st, clk, fault)

\* gog_giveaway.py: scrape_gog_game_data and main
main(page, st, clk, fault) ==
    IF page.load = "nav_timeout" THEN Failed(st, clk)
    ELSE ReconcileExtracted("gog_giveaway",
                            ExtractRows("gog_giveaway", page.rows, 1, <<>>),
                            st, clk, fault)

\* gog_freeGameCollection.py
scrape_gog_collection(page, st, clk, fault) ==
    IF page.load = "nav_timeout" THEN Failed(st, clk)
    ELSE IF page.rows = <<>>
    THEN Result("returned", <<>>, FALSE, PassStart(st, clk), FALSE, 0, 0)
    ELSE ReconcileExtracted("gog_collection",
                            ExtractRows("gog_collection", page.rows, 1, <<>>),
                            st, clk, fault)

\* gog.py
scrape_gog(page, st, clk, fault) ==
    IF page.load \in {"nav_timeout", "container_timeout"} THEN Failed(st, clk)
    ELSE ReconcileExtracted("gog", ExtractRows("gog", page.rows, 1, <<>>),
                            st, clk, fault)

\* epic.py: the "Invalid game data" test and the reconciliation.
epic_game_data(x, st, clk, fault) ==
    IF ~x.raised /\ IsInvalid("epic", x.games[1])
    THEN Result("done", x.games, TRUE, PassStart(st, clk), FALSE, 0, 0)
    ELSE ReconcileExtracted("epic", x, st, clk, fault)

\* epic.py
scrape_epic_free_game_block(page, st, clk, fault) ==
    IF page.load = "nav_timeout" THEN Failed(st, clk)
    ELSE epic_game_data(ExtractRows("epic", page.rows, 1, <<>>), st, clk, fault)

Run(p, page, st, clk, fault) ==
    CASE p = "prime" -> scrape_prime_gaming(page, st, clk, fault)
      [] p = "steam" -> scrape_steam(page, st, clk, fault)
      [] p = "gog_giveaway" -> main(page, st, clk, fault)
      [] p = "gog_collection" -> scrape_gog_collection(page, st, clk, fault)
      [] p = "gog" -> scrape_gog(page, st, clk, fault)
      [] p = "epic" -> scrape_epic_free_game_block(page, st, clk, fault)

(***************************************************************************)
(* The pages a scraper may be served.                                      *)
(***************************************************************************)
SITE == <<"h", "t", "t", "p", "s", ":", "/", "/", "x">>
ALPHA == <<"A", "l", "p", "h", "a">>

\* An offer link of the source p, as the page gives it.
OfferUrl(p, slug) ==
    CASE p = "prime" -> SITE \o PRIME_PREFIX \o slug
      [] p \in {"gog_giveaway", "gog_collection"} -> SITE \o GOG_GAME_PREFIX \o slug
      [] p = "gog" -> SITE \o GOG_GIVEAWAY_PREFIX \o slug
      [] p = "steam" -> SITE \o STEAM_PREFIX \o <<"7", "/">> \o slug \o <<"/">>
      [] p = "epic" -> <<"/", "p", "/">> \o slug

\* Two complete offers, an element with nothing but the title text
\* "Unknown Title", an element none of whose reads succeeds, and an offer
\* without a link.
RowsOf(p) ==
    { [title |-> Text(ALPHA), url |-> Text(OfferUrl(p, ToLower(ALPHA))),
       img |-> Text(<<"a">>)],
      [title |-> Text(<<"B">>), url |-> Text(OfferUrl(p, <<"b">>)),
       img |-> Text(<<"b">>)],
      [title |-> Text(UNKNOWN_TITLE), url |-> Nothing, img |-> Nothing],
      [title |-> Timeout, url |-> Timeout, img |-> Nothing],
      [title |-> Text(ALPHA), url |-> Nothing, img |-> Text(<<"a">>)] }

SeqsUpTo(S, n) == UNION {[1..k -> S] : k \in 0..n}

LoadsOf(p) ==
    CASE p = "prime" -> {"nav_timeout", "container_timeout"}
      [] p = "steam" -> {"nav_timeout", "container_timeout", "zero_label"}
      [] p = "gog" -> {"nav_timeout", "container_timeout"}
      [] OTHER -> {"nav_timeout"}

\* gog_giveaway.py reads one banner, epic.py one block.
RowListsOf(p) ==
    CASE p = "gog_giveaway" -> SeqsUpTo(RowsOf(p), 1)
      [] p = "epic" -> [1..1 -> RowsOf(p)]
      [] OTHER -> SeqsUpTo(RowsOf(p), MaxRows)

Pages(p) ==
    {[load |-> l, rows |-> <<>>] : l \in LoadsOf(p)}
        \cup {[load |-> "ok", rows |-> rs] : rs \in RowListsOf(p)}

(***************************************************************************)
(* The state machine.  A scraper script is started, runs once and exits;   *)
(* the collection and the clock outlive it.  last holds what the process   *)
(* was given and what it did, and is Idle when no process has run since    *)
(* the last exit.                                                          *)
(***************************************************************************)
Idle ==
    [page |-> [load |-> "none", rows |-> <<>>], before |-> EmptyStore,
     repeat |-> FALSE,
     run |-> Result("idle", <<>>, FALSE, PassStart(EmptyStore, 0), FALSE, 0, 0)]

\* No rate limiter has been constructed.
NoLimiter == [kind |-> "none"]

\* No MailCounter has been constructed.
NoMail == [kind |-> "none"]

\* No scroll loop is running.
NoScroll == [kind |-> "none"]

\* No candidate element is being read.
NoElement == [kind |-> "none"]

\* No two requests run the same script.
NoOverlap == [kind |-> "none"]

\* The subscriber collection is not part of the process.
NoSubs == [kind |-> "none"]

\* The newsletter job is not part of the process.
NoNews == [kind |-> "none"]

\* No script has run on the database.
NoShared == [kind |-> "none"]

\* No run of a script has been started.
NoJob ==
    [p |-> "none", pc |-> 0, mode |-> "ended", context |-> "none", trace |-> <<>>,
     new |-> FALSE, committed |-> FALSE, failed |-> FALSE, alerts |-> 0,
     alertsLost |-> 0, sent |-> 0, lost |-> 0, raisedAt |-> <<>>, faults |-> 0,
     end |-> "none", alive |-> TRUE, runs |-> 0]

NoQuery == [p |-> "none", title |-> <<>>, other |-> <<>>, url |-> <<>>, ids |-> <<>>]

Init ==
    /\ pipeline \in Pipelines
    /\ store = EmptyStore
    /\ clock = 0
    /\ last = Idle
    /\ query = NoQuery
    /\ limiter = NoLimiter
    /\ job = NoJob
    /\ subs = NoSubs
    /\ over = NoOverlap
    /\ element = NoElement
    /\ scroll = NoScroll
    /\ mail = NoMail
    /\ shared = NoShared
    /\ news = NoNews

\* The effect of a run r of the script on the page; again tells that the
\* run before it was given the same page.
Ran(page, r, again) ==
    /\ r.clock <= MaxClock
    /\ store' = r.store
    /\ clock' = r.clock
    /\ last' = [page |-> page, before |-> store, run |-> r,
                repeat |-> again /\ last.run.reconciled /\ r.reconciled]
    /\ UNCHANGED <<pipeline, query, scrapeFrame>>

\* One run of the script p on a page, with or without a failing store call.
Scrape(p) ==
    /\ pipeline = p
    /\ last = Idle
    /\ \E page \in Pages(p), fault \in Faults :
         Ran(page, Run(p, page, store, clock, fault), FALSE)

ScrapePrime == Scrape("prime")
ScrapeSteam == Scrape("steam")
ScrapeGogGiveaway == Scrape("gog_giveaway")
ScrapeGogCollection == Scrape("gog_collection")
ScrapeGog == Scrape("gog")
ScrapeEpic == Scrape("epic")

\* The script is run again while the source still serves the same page.
Rerun ==
    /\ last # Idle
    /\ Ran(last.page, Run(pipeline, last.page, store, clock, NoFault), TRUE)

\* The process exits.
Exit ==
    /\ last # Idle
    /\ last' = Idle
    /\ UNCHANGED <<pipeline, store, clock, query, scrapeFrame>>

Next ==
    \/ ScrapePrime
    \/ ScrapeSteam
    \/ ScrapeGogGiveaway
    \/ ScrapeGogCollection
    \/ ScrapeGog
    \/ ScrapeEpic
    \/ Rerun
    \/ Exit

Spec == Init /\ [][Next]_vars

TypeOK ==
    /\ pipeline \in Pipelines
    /\ clock \in 0..MaxClock
    /\ \A id \in DOMAIN store : store[id].createdAt \in 1..clock

(***************************************************************************)
(* The id resolution on its own: a record {title, url} of a source, a      *)
(* casing or whitespace variant of its title, and the ids the scraper's    *)
(* loop gives them alone and behind another candidate of the batch.        *)
(***************************************************************************)
TitleChars == {"a", "A", " ", "!"}
Titles == SeqsUpTo(TitleChars, MaxTitleLen) \ {<<>>}

\* The url the extraction leaves when the link could not be read.
UrlSentinel(p) == IF p = "epic" THEN EPIC_NO_URL ELSE NO_URL_FOUND

QueryUrls(p) ==
    { UrlSentinel(p),
      SITE \o <<"/", "z">>,
      OfferUrl(p, <<"a", "!", "!", "B">>),
      OfferUrl(p, <<"c">>) \o <<"?", "r", "=", "1">> }

Variants(t) == {u \in Titles : ToLower(Strip(u)) = ToLower(Strip(t))}

FILLER == [title |-> <<"F">>, url |-> <<"f">>, imageUrl |-> <<"f">>]

ResolveInit ==
    /\ pipeline = "prime"
    /\ store = EmptyStore
    /\ clock = 0
    /\ last = Idle
    /\ limiter = NoLimiter
    /\ job = NoJob
    /\ subs = NoSubs
    /\ over = NoOverlap
    /\ element = NoElement
    /\ scroll = NoScroll
    /\ mail = NoMail
    /\ shared = NoShared
    /\ news = NoNews
    /\ \E p \in Pipelines, t \in Titles :
         \E o \in Variants(t), u \in QueryUrls(p) :
           query = [p |-> p, title |-> t, other |-> o, url |-> u, ids |-> <<>>]

\* The ids under which the loop of the scraper stores a batch.
StoredIds(p, games) == DOMAIN Reconcile(p, games, EmptyStore, 0, NoFault).store

Resolve ==
    /\ query.ids = <<>>
    /\ LET g == [title |-> query.title, url |-> query.url, imageUrl |-> <<"i">>]
           o == [g EXCEPT !.title = query.other]
       IN  query' = [query EXCEPT !.ids =
                        <<GameId(query.p, g), GameId(query.p, o),
                          StoredIds(query.p, <<g>>),
                          StoredIds(query.p, <<FILLER, g>>)>>]
    /\ UNCHANGED <<pipeline, store, clock, last, scrapeFrame>>

SpecResolve == ResolveInit /\ [][Resolve]_vars

(***************************************************************************)
(* What the properties talk about.                                         *)
(***************************************************************************)
\* A candidate all of whose fields are the sentinels of the data model.
IsSentinel(g) ==
    /\ g.title = UNKNOWN_TITLE
    /\ g.url = NO_URL_FOUND
    /\ g.imageUrl = NO_IMAGE_FOUND

NotSentinel(g) == ~IsSentinel(g)

GameOf(doc) == [title |-> doc.title, url |-> doc.url, imageUrl |-> doc.imageUrl]

\* The ids of the candidates of the last run that are not sentinels.
BatchIds == {GameId(pipeline, g) : g \in {x \in Range(last.run.games) : NotSentinel(x)}}

AbsentBefore(g) == NotSentinel(g) /\ GameId(pipeline, g) \notin DOMAIN last.before

\* The last run found no candidates because the page or its container did
\* not load, or nothing could be extracted and nothing confirmed that the
\* source has no offers.
FailedLoad ==
    \/ last.page.load \in {"nav_timeout", "container_timeout"}
    \/ /\ pipeline \in {"gog_collection", "steam"}
       /\ last.page.load = "ok"
       /\ last.page.rows = <<>>

\* The last run was told by the source that it has no offers: the label
\* "0 results match your search" of Steam, a loaded offer list without
\* cards, a GOG front page without the giveaway banner.
ConfirmedZero ==
    \/ pipeline = "steam" /\ last.page.load = "zero_label"
    \/ /\ pipeline \in {"prime", "gog", "gog_giveaway"}
       /\ last.page.load = "ok"
       /\ last.page.rows = <<>>

\* A read of some field of some element of the page timed out or found
\* nothing.
FieldMissing ==
    \E i \in DOMAIN last.page.rows :
       \E f \in {last.page.rows[i].title, last.page.rows[i].url, last.page.rows[i].img} :
          f.k # "text"

\* The page of the last run without the elements that extract to sentinels.
RECURSIVE DropSentinelRows(_, _)
DropSentinelRows(p, rows) ==
    IF rows = <<>> THEN <<>>
    ELSE LET x == ExtractRows(p, <<Head(rows)>>, 1, <<>>)
         IN  IF ~x.raised /\ IsSentinel(x.games[1])
             THEN DropSentinelRows(p, Tail(rows))
             ELSE <<Head(rows)>> \o DropSentinelRows(p, Tail(rows))

(***************************************************************************)
(* C1  Idempotence: a pass that follows a completed pass on the same       *)
(* candidate list adds nothing, removes nothing and leaves every record,   *)
(* createdAt included, as it was.                                          *)
(***************************************************************************)
C1_Idempotent ==
    last.repeat =>
        /\ last.run.notify = <<>>
        /\ last.run.removed = <<>>
        /\ store = last.before

(***************************************************************************)
(* C2  After a reconciliation pass that ran to its end the ids of the      *)
(* collection are exactly the ids resolved from the non-sentinel           *)
(* candidates of the pass.                                                 *)
(***************************************************************************)
C2_StoreMatchesBatch ==
    last.run.reconciled => DOMAIN store = BatchIds

\* A completed pass that added one offer, kept one and deleted another.
C2_Witness ==
    /\ last.run.reconciled
    /\ last.run.notify # <<>>
    /\ last.run.removed # <<>>
    /\ DOMAIN store \cap DOMAIN last.before # {}
    /\ DOMAIN store = BatchIds

(***************************************************************************)
(* C3  Empty-batch safety, failure case: a run whose page or container     *)
(* failed to load deletes nothing, adds nothing and reports the failure.   *)
(***************************************************************************)
C3_FailedLoadUntouched ==
    (last # Idle /\ FailedLoad) =>
        /\ store = last.before
        /\ last.run.notify = <<>>
        /\ last.run.reports >= 1

(***************************************************************************)
(* C4  Empty-batch safety, confirmed case: a run that is told by the       *)
(* source that it has no offers, and whose store calls succeed, deletes    *)
(* every record of the collection and adds none.                           *)
(***************************************************************************)
C4_ConfirmedZeroWipes ==
    (last # Idle /\ ConfirmedZero /\ ~last.run.storeError) =>
        /\ store = EmptyStore
        /\ Range(last.run.removed) = DOMAIN last.before
        /\ last.run.notify = <<>>

\* A confirmed "no offers" run that emptied a collection holding records.
C4_Witness ==
    /\ last # Idle
    /\ ConfirmedZero
    /\ ~last.run.storeError
    /\ last.before # EmptyStore
    /\ store = EmptyStore

(***************************************************************************)
(* C5  Sentinel filtering: an all-sentinel candidate is never stored,      *)
(* never in the ADD list, and a completed pass deletes what it would       *)
(* delete if the page did not hold the elements of the sentinel            *)
(* candidates.                                                             *)
(***************************************************************************)
C5_SentinelFiltered ==
    /\ \A id \in DOMAIN store : NotSentinel(store[id])
    /\ \A i \in DOMAIN last.run.notify : NotSentinel(last.run.notify[i])
    /\ last.run.reconciled =>
          Range(last.run.removed) =
              Range(Run(pipeline,
                        [last.page EXCEPT !.rows = DropSentinelRows(pipeline, @)],
                        last.before, 0, NoFault).removed)

(***************************************************************************)
(* C6  ADD computation: the ADD list of a completed pass is exactly the    *)
(* non-sentinel candidates whose id was not in the collection when the     *)
(* pass read it, each of them stored under its id.                         *)
(***************************************************************************)
C6_AddExact ==
    last.run.reconciled =>
        /\ [i \in DOMAIN last.run.notify |-> GameOf(last.run.notify[i])]
              = SelectSeq(last.run.games, AbsentBefore)
        /\ \A i \in DOMAIN last.run.notify :
              GameId(pipeline, last.run.notify[i]) \in DOMAIN store

(***************************************************************************)
(* C7  Immutability after creation: a record that stays in the collection  *)
(* over a step keeps its createdAt, title, url and imageUrl.               *)
(***************************************************************************)
C7_Immutable ==
    [][\A id \in DOMAIN store \cap DOMAIN store' : store'[id] = store[id]]_vars

(***************************************************************************)
(* C8  Atomic reconciliation: a pass in which a store operation failed     *)
(* leaves the collection as it was at the start of the pass and reports    *)
(* the failure.                                                            *)
(***************************************************************************)
C8_AtomicOnStoreError ==
    last.run.storeError =>
        /\ store = last.before
        /\ last.run.reports >= 1

(***************************************************************************)
(* C9  Per-field graceful degradation: when a field read of a loaded page  *)
(* times out or finds nothing, every element of the page is still emitted  *)
(* as a candidate with string fields, and the run does not fail unless a   *)
(* store operation fails.                                                  *)
(***************************************************************************)
C9_GracefulDegradation ==
    (last # Idle /\ last.page.load = "ok" /\ FieldMissing) =>
        /\ last.run.extracted
        /\ Len(last.run.games) = Len(last.page.rows)
        /\ \A i \in DOMAIN last.run.games : last.run.games[i].url # None
        /\ ~last.run.storeError => last.run.outcome # "failed"

(***************************************************************************)
(* C10  Identity stability: when the url matches the slug pattern of the   *)
(* source the id is the same for every casing and whitespace variant of    *)
(* the title and for every position in the batch; when the url is the      *)
(* sentinel the id is the sanitized lowercased title with spaces replaced  *)
(* by underscores.                                                         *)
(***************************************************************************)
UrlMatches(p, url) ==
    CASE p = "prime" -> SlugSearch(PRIME_PREFIX, url).matched
      [] p \in {"gog_giveaway", "gog_collection"} -> SlugSearch(GOG_GAME_PREFIX, url).matched
      [] p = "gog" -> SlugSearch(GOG_GIVEAWAY_PREFIX, url).matched
      [] p = "steam" -> SteamSearch(url).matched
      [] p = "epic" -> url # UrlSentinel(p)

C10_IdentityStable ==
    query.ids # <<>> =>
        /\ UrlMatches(query.p, query.url) => query.ids[1] = query.ids[2]
        /\ query.url = UrlSentinel(query.p) =>
              query.ids[1] = sanitize(ReplaceSpaces(ToLower(query.title)))
        /\ query.ids[3] = {query.ids[1]}
        /\ query.ids[4] = {GameId(query.p, FILLER), query.ids[1]}

\* A record with a matching url and a title variant that differs from the
\* title, both resolved through the url.
C10_Witness ==
    /\ query.ids # <<>>
    /\ UrlMatches(query.p, query.url)
    /\ query.other # query.title
    /\ query.ids[1] = query.ids[2]
    /\ query.ids[1] # sanitize(ReplaceSpaces(ToLower(query.title)))

(***************************************************************************)
(* C11  Sanitized ids: every id under which a scraper stores a record      *)
(* consists of characters of [A-Za-z0-9_-] only.                           *)
(***************************************************************************)
C11_SanitizedIds ==
    query.ids # <<>> =>
        \A id \in query.ids[3] \cup query.ids[4] : Range(id) \subseteq WordChars

(***************************************************************************)
(* The request rate limiters of scraper_utils.py.  Time is counted in      *)
(* seconds.  SyncRequestRateLimiter.wait_if_needed blocks its thread in    *)
(* time.sleep, so a call is one step; AsyncRequestRateLimiter's suspends   *)
(* in asyncio.sleep, where other tasks of the event loop run, and the code *)
(* between two awaits runs without interruption.                           *)
(***************************************************************************)
WINDOW == 60
MaxLimit == 2
MaxCalls == 4
MaxTasks == 2
MaxTime == 240

Tasks == 1..MaxTasks

\* A task that is not inside wait_if_needed.
Outside == [pc |-> "outside", now |-> 0, until |-> 0]

\* __init__(requests_per_minute)
NewLimiter(kind, requests_per_minute) ==
    [kind |-> kind, requests_per_minute |-> requests_per_minute,
     request_times |-> <<>>, time |-> 0, calls |-> 0, returns |-> <<>>,
     purged |-> 0, overlapped |-> FALSE, tasks |-> [t \in Tasks |-> Outside]]

\* [t for t in self.request_times if t > minute_ago]
RecentOnly(request_times, now) ==
    LET Recent(t) == t > now - WINDOW IN SelectSeq(request_times, Recent)

\* The seconds a caller entering at now has to wait, 0 when it need not.
WaitSeconds(kept, requests_per_minute, now) ==
    IF Len(kept) >= requests_per_minute /\ kept[1] + WINDOW - now > 0
    THEN kept[1] + WINDOW - now
    ELSE 0

\* self.request_times.append(now), and the return to the caller at time at.
Recorded(lim, now, at) ==
    [lim EXCEPT !.request_times = Append(@, now), !.returns = Append(@, at)]

\* The head of wait_if_needed up to its sleep: the old requests are dropped.
Purged(lim, now) ==
    [lim EXCEPT !.request_times = RecentOnly(@, now),
                !.purged = @ + Len(lim.request_times)
                             - Len(RecentOnly(lim.request_times, now)),
                !.calls = @ + 1]

LimiterInit ==
    /\ pipeline = "prime"
    /\ store = EmptyStore
    /\ clock = 0
    /\ last = Idle
    /\ query = NoQuery
    /\ job = NoJob
    /\ subs = NoSubs
    /\ over = NoOverlap
    /\ element = NoElement
    /\ scroll = NoScroll
    /\ mail = NoMail
    /\ shared = NoShared
    /\ news = NoNews
    /\ \E kind \in {"sync", "async"}, l \in 1..MaxLimit :
          limiter = NewLimiter(kind, l)

\* SyncRequestRateLimiter.wait_if_needed: the thread sleeps inside the call.
SyncWait ==
    /\ limiter.kind = "sync"
    /\ limiter.calls < MaxCalls
    /\ limiter' =
          [Recorded(Purged(limiter, limiter.time), limiter.time,
                    limiter.time + WaitSeconds(RecentOnly(limiter.request_times, limiter.time),
                                               limiter.requests_per_minute, limiter.time))
             EXCEPT !.time = @ + WaitSeconds(RecentOnly(limiter.request_times, limiter.time),
                                             limiter.requests_per_minute, limiter.time)]
    /\ UNCHANGED limiterFrame

\* AsyncRequestRateLimiter.wait_if_needed of task t up to its first await,
\* or to its end when it does not sleep.
AsyncEnter(t, wait) ==
    /\ limiter.kind = "async"
    /\ limiter.calls < MaxCalls
    /\ limiter.tasks[t].pc = "outside"
    /\ limiter' =
          IF wait > 0
          THEN [Purged(limiter, limiter.time) EXCEPT
                   !.tasks[t] = [pc |-> "sleeping", now |-> limiter.time,
                                 until |-> limiter.time + wait],
                   !.overlapped = @ \/ \E u \in Tasks : limiter.tasks[u].pc = "sleeping"]
          ELSE Recorded(Purged(limiter, limiter.time), limiter.time, limiter.time)
    /\ UNCHANGED limiterFrame

AsyncCall ==
    \E t \in Tasks :
       AsyncEnter(t, WaitSeconds(RecentOnly(limiter.request_times, limiter.time),
                                 limiter.requests_per_minute, limiter.time))

\* asyncio.sleep(wait_seconds) is over: the task appends its now and returns.
AsyncWake ==
    \E t \in Tasks :
       /\ limiter.kind = "async"
       /\ limiter.tasks[t].pc = "sleeping"
       /\ limiter.tasks[t].until <= limiter.time
       /\ limiter' = [Recorded(limiter, limiter.tasks[t].now, limiter.time)
                         EXCEPT !.tasks[t] = Outside]
       /\ UNCHANGED limiterFrame

\* Time passes; a sleeping task is woken when its sleep is over.
Tick ==
    /\ limiter.kind \in {"sync", "async"}
    /\ \E dt \in {WINDOW \div 2, WINDOW} :
          /\ limiter.time + dt <= MaxTime
          /\ \A t \in Tasks : limiter.tasks[t].pc = "sleeping"
                                 => limiter.time + dt <= limiter.tasks[t].until
          /\ limiter' = [limiter EXCEPT !.time = @ + dt]
    /\ UNCHANGED limiterFrame

LimiterNext == SyncWait \/ AsyncCall \/ AsyncWake \/ Tick

SpecLimiter == LimiterInit /\ [][LimiterNext]_vars

\* The calls that returned in the WINDOW seconds that end at time at.
ReturnsInWindow(at) ==
    Cardinality({i \in DOMAIN limiter.returns :
                    at - WINDOW < limiter.returns[i] /\ limiter.returns[i] <= at})

\* No window that ends with a return holds more than the limit.
WithinLimit ==
    \A i \in DOMAIN limiter.returns :
       ReturnsInWindow(limiter.returns[i]) <= limiter.requests_per_minute

(***************************************************************************)
(* C12  Rate limit bound: with a limit of L requests per minute, at most L *)
(* calls of wait_if_needed return in any rolling window of 60 seconds,     *)
(* after any sequence of calls of one caller.                              *)
(***************************************************************************)
C12_RateLimitBound ==
    limiter.kind = "sync" => WithinLimit

(***************************************************************************)
(* C13  Rate limiter under concurrency: when a task enters                 *)
(* AsyncRequestRateLimiter.wait_if_needed while another is suspended in    *)
(* it, no recorded request is lost and the limit holds for the callers     *)
(* taken together.                                                         *)
(***************************************************************************)
C13_ConcurrentCallers ==
    (limiter.kind = "async" /\ limiter.overlapped) =>
        /\ Len(limiter.request_times) + limiter.purged = Len(limiter.returns)
        /\ WithinLimit

(***************************************************************************)
(* One run of a scraper, statement by statement.  Flow(p) lists the steps  *)
(* of the script p in the order of its source; TryRange(p) are the steps   *)
(* inside its try block, FinallyRange(p) the steps of its finally block.   *)
(* job is the run in progress in a process that, like run_task of app.py,  *)
(* runs one source after the other and catches Exception around each.      *)
(***************************************************************************)
MaxFaults == 2
MaxRuns == 2

Flow(p) ==
    CASE p = "prime" ->
           <<"launch", "setup", "fetch", "extract", "reconcile", "screenshot",
             "notify", "close">>
      [] p = "steam" ->
           <<"launch", "setup", "fetch", "extract", "reconcile", "close">>
      [] p = "gog_giveaway" ->
           <<"launch", "setup", "fetch", "extract", "close", "reconcile", "static">>
      [] p = "gog_collection" ->
           <<"launch", "setup", "fetch", "extract", "reconcile", "static",
             "screenshot", "notify", "close">>
      [] p = "gog" ->
           <<"launch", "setup", "fetch", "extract", "reconcile", "screenshot",
             "notify", "notify", "close", "exit">>
      [] p = "epic" ->
           <<"launch", "setup", "fetch", "extract", "reconcile", "screenshot",
             "notify", "close">>

\* The steps between `try:` and its `except` / `finally`.
TryRange(p) ==
    CASE p \in {"prime", "gog", "epic"} -> [from |-> 3, to |-> 7]
      [] p = "steam" -> [from |-> 3, to |-> 5]
      [] p = "gog_giveaway" -> [from |-> 3, to |-> 4]
      [] p = "gog_collection" -> [from |-> 3, to |-> 8]

\* The steps of `finally:`.
FinallyRange(p) ==
    CASE p \in {"prime", "epic"} -> [from |-> 8, to |-> 8]
      [] p = "steam" -> [from |-> 6, to |-> 6]
      [] p = "gog_giveaway" -> [from |-> 5, to |-> 5]
      [] p = "gog_collection" -> [from |-> 9, to |-> 9]
      [] p = "gog" -> [from |-> 8, to |-> 10]

\* What `except Exception` of the try block does: it reports the failure,
\* or (scrape_gog_game_data) raises the exception again.
InnerHandler(p) == IF p = "gog_giveaway" THEN "reraise" ELSE "alert"

\* The handler around the whole run: none, one that reports the failure
\* (gog_freeGameCollection.py), one that reports it and raises it again
\* (main of gog_giveaway.py).
OuterHandler(p) ==
    CASE p = "gog_collection" -> "alert"
      [] p = "gog_giveaway" -> "alert_raise"
      [] OTHER -> "none"

\* send_email of util.py catches what smtplib raises and prints it; the
\* send_email of epic.py only prints.
send_email_raising(p, delivered) == IF delivered THEN "returned" ELSE "raised"

send_email(p, delivered) == "returned"

\* Whether a delivery can fail at all.
Deliveries(p) == IF p = "epic" THEN {TRUE} ELSE BOOLEAN

NewJob(p, runs) ==
    [NoJob EXCEPT !.p = p, !.pc = 1, !.mode = "normal", !.end = "running",
                  !.runs = runs]

\* The run is over: it returned, raised, or called exit().
Ended(j, how) ==
    [j EXCEPT !.mode = "ended", !.end = how,
              !.trace = IF j.failed \/ how = "raised" THEN @ ELSE Append(@, "DONE"),
              !.alive = how # "exit"]

\* The exception leaves the try block or was raised outside of it.
Escaped(j) ==
    IF OuterHandler(j.p) = "none" THEN Ended(j, "raised")
    ELSE [j EXCEPT !.mode = "outer_handler"]

\* The step at j.pc is done; what the run does next.
Advance(j) ==
    IF j.pc = FinallyRange(j.p).to /\ j.mode = "raising" THEN Escaped(j)
    ELSE IF j.pc = Len(Flow(j.p)) \/
            (j.pc = FinallyRange(j.p).to /\ j.mode \in {"returning", "handled"})
    THEN Ended(j, "returned")
    ELSE [j EXCEPT !.pc = @ + 1]

\* `return` inside the try block: the finally block runs, then the run ends.
Return(j) == [j EXCEPT !.mode = "returning", !.pc = FinallyRange(j.p).from]

\* The step at j.pc raised an exception.
Raise(j) ==
    LET k == [j EXCEPT !.failed = TRUE, !.faults = @ + 1,
                       !.raisedAt = Append(@, Flow(j.p)[j.pc]),
                       !.trace = IF j.failed THEN @ ELSE Append(@, "FAILED")]
    IN  IF j.mode = "normal" /\ j.pc >= TryRange(j.p).from /\ j.pc <= TryRange(j.p).to
        THEN IF InnerHandler(j.p) = "alert"
             THEN [k EXCEPT !.mode = "inner_handler"]
             ELSE [k EXCEPT !.mode = "raising", !.pc = FinallyRange(j.p).from]
        ELSE Escaped(k)

\* The steps a run can be at.
AtStep(step) ==
    /\ job.end = "running"
    /\ job.mode \in {"normal", "returning", "handled", "raising"}
    /\ Flow(job.p)[job.pc] = step

\* Whether one more operation of the run may fail.
MayFail == job.faults < MaxFaults

\* What a step does besides passing on: outcomes other than "ok" and "raise".
Stage(j, name) == [j EXCEPT !.trace = Append(@, name)]

JobInit ==
    /\ pipeline = "prime"
    /\ store = EmptyStore
    /\ clock = 0
    /\ last = Idle
    /\ query = NoQuery
    /\ limiter = NoLimiter
    /\ job = NoJob
    /\ subs = NoSubs
    /\ over = NoOverlap
    /\ element = NoElement
    /\ scroll = NoScroll
    /\ mail = NoMail
    /\ shared = NoShared
    /\ news = NoNews

\* run_task / __main__: the process starts the run of a source.
StartRun ==
    /\ job.end # "running"
    /\ job.alive
    /\ job.runs < MaxRuns
    /\ \E p \in Pipelines : job' = NewJob(p, job.runs + 1)
    /\ UNCHANGED jobFrame

\* launch_persistent_context(...)
Launch ==
    /\ AtStep("launch")
    /\ \/ job' = Advance([job EXCEPT !.context = "open"])
       \/ MayFail /\ job' = Raise(job)
    /\ UNCHANGED jobFrame

\* The page of the context is configured: new_page, stealth,
\* set_viewport_size, set_extra_http_headers, add_init_script.
Setup ==
    /\ AtStep("setup")
    /\ \/ job' = Advance(job)
       \/ MayFail /\ job' = Raise(job)
    /\ UNCHANGED jobFrame

\* page.goto and the waits for the container; steam.py returns after
\* delete_all_firestore_entries when the page shows "0 results".
Fetch ==
    /\ AtStep("fetch")
    /\ \/ job' = Advance(Stage(job, "fetch"))
       \/ MayFail /\ job' = Raise(Stage(job, "fetch"))
       \/ /\ job.p = "steam"
          /\ job' = Return([Stage(Stage(job, "fetch"), "reconcile")
                              EXCEPT !.committed = TRUE])
    /\ UNCHANGED jobFrame

\* The extraction loop, and what a script does when it extracted nothing:
\* gog_freeGameCollection.py returns, steam.py deletes every document and
\* returns, epic.py skips the store when its record is invalid.
Extract ==
    /\ AtStep("extract")
    /\ \/ job' = Advance(Stage(job, "extract"))
       \/ MayFail /\ job' = Raise(Stage(job, "extract"))
       \/ /\ job.p = "gog_collection"
          /\ job' = Return(Stage(job, "extract"))
       \/ /\ job.p = "steam"
          /\ job' = Return([Stage(Stage(job, "extract"), "reconcile")
                              EXCEPT !.committed = TRUE])
       \/ /\ job.p = "epic"
          /\ job' = [Stage(job, "extract") EXCEPT !.pc = @ + 2]
    /\ UNCHANGED jobFrame

\* The pass over the collection; new tells that it added an offer, which
\* it may have done before one of its store calls raised.
ReconcileStep ==
    /\ AtStep("reconcile")
    /\ \E new \in BOOLEAN :
          \/ job' = Advance([Stage(job, "reconcile")
                               EXCEPT !.new = new, !.committed = TRUE])
          \/ MayFail /\ job' = Raise([Stage(job, "reconcile") EXCEPT !.new = new])
    /\ UNCHANGED jobFrame

\* write_static_games_file(db) and the screenshot of the page.
AfterReconcile ==
    /\ AtStep("static") \/ AtStep("screenshot")
    /\ \/ job' = Advance(job)
       \/ MayFail /\ job' = Raise(job)
    /\ UNCHANGED jobFrame

\* if notify_games: send_email(...)
NotifyStep ==
    /\ AtStep("notify")
    /\ IF ~job.new THEN job' = Advance(job)
       ELSE \E delivered \in Deliveries(job.p) :
               /\ delivered \/ MayFail
               /\ IF send_email(job.p, delivered) = "raised"
                  THEN job' = Raise([Stage(job, "notify") EXCEPT !.lost = @ + 1])
                  ELSE job' = Advance([Stage(job, "notify") EXCEPT
                                          !.sent = @ + 1,
                                          !.lost = IF delivered THEN @ ELSE @ + 1,
                                          !.faults = IF delivered THEN @ ELSE @ + 1])
    /\ UNCHANGED jobFrame

\* context.close()
Close ==
    /\ AtStep("close")
    /\ \/ job' = Advance([job EXCEPT !.context = "closed"])
       \/ MayFail /\ job' = Raise(job)
    /\ UNCHANGED jobFrame

\* gog.py: exit(exit_code) at the end of finally raises SystemExit.
Exit_code ==
    /\ AtStep("exit")
    /\ job' = Ended(job, "exit")
    /\ UNCHANGED jobFrame

\* The alert of an exception handler; its delivery may fail, which
\* send_email prints and which the handler does not see.
Alerted(j, delivered) ==
    [j EXCEPT !.alerts = @ + 1,
              !.alertsLost = IF delivered THEN @ ELSE @ + 1,
              !.faults = IF delivered THEN @ ELSE @ + 1]

\* except Exception of the try block: the failure is reported, then the
\* finally block runs.
HandleInner ==
    /\ job.end = "running"
    /\ job.mode = "inner_handler"
    /\ \E delivered \in Deliveries(job.p) :
          /\ delivered \/ MayFail
          /\ job' = IF send_email(job.p, delivered) = "raised"
                    THEN [job EXCEPT !.mode = "raising", !.faults = @ + 1,
                                     !.alertsLost = @ + 1,
                                     !.pc = FinallyRange(job.p).from]
                    ELSE [Alerted(job, delivered) EXCEPT
                             !.mode = "handled", !.pc = FinallyRange(job.p).from]
    /\ UNCHANGED jobFrame

\* except Exception around the whole run.
HandleOuter ==
    /\ job.end = "running"
    /\ job.mode = "outer_handler"
    /\ \E delivered \in Deliveries(job.p) :
          /\ delivered \/ MayFail
          /\ job' = IF send_email(job.p, delivered) = "raised"
                       \/ OuterHandler(job.p) = "alert_raise"
                    THEN Ended(Alerted(job, delivered), "raised")
                    ELSE Ended(Alerted(job, delivered), "returned")
    /\ UNCHANGED jobFrame

JobNext ==
    \/ StartRun
    \/ Launch
    \/ Setup
    \/ Fetch
    \/ Extract
    \/ ReconcileStep
    \/ AfterReconcile
    \/ NotifyStep
    \/ Close
    \/ Exit_code
    \/ HandleInner
    \/ HandleOuter

SpecRun == JobInit /\ [][JobNext]_vars

(***************************************************************************)
(* Claims about single runs.                                               *)
(***************************************************************************)
StageNames == {"fetch", "extract", "reconcile", "notify"}

Rank(name) ==
    CASE name = "fetch" -> 1
      [] name = "extract" -> 2
      [] name = "reconcile" -> 3
      [] name = "notify" -> 4
      [] OTHER -> 0

InTrace(name) == \E i \in 1..Len(job.trace) : job.trace[i] = name

\* C14: a run goes through fetch, extract, reconcile, notify in this order,
\* each at most once; once it has failed or is done it starts no stage; it
\* ends as exactly one of DONE and FAILED, and as DONE only after its
\* reconciliation, and the notification of the offers it added, completed.
C14_RunStateMachine ==
    /\ \A i, k \in 1..Len(job.trace) :
          (i < k /\ job.trace[k] \in StageNames) =>
              /\ job.trace[i] \in StageNames
              /\ Rank(job.trace[i]) < Rank(job.trace[k])
    /\ job.end \in {"returned", "raised", "exit"} =>
          /\ InTrace("DONE") # InTrace("FAILED")
          /\ InTrace("DONE") =>
                /\ InTrace("reconcile")
                /\ job.new => InTrace("notify")

RaisedAt(step) == \E i \in 1..Len(job.raisedAt) : job.raisedAt[i] = step

RunOver == job.end \in {"returned", "raised", "exit"}

C16_FailureReported ==
    (RunOver /\ job.failed) =>
        /\ job.alerts >= 1
        /\ (job.alertsLost > 0 /\ Len(job.raisedAt) = 1) =>
              /\ job.end = "raised" => OuterHandler(job.p) = "alert_raise"
              /\ job.context = "open" => RaisedAt("setup") \/ RaisedAt("close")

\* C17: after a run of one source failed, the process is alive and can run
\* the other sources.
C17_SourceIsolation == (RunOver /\ job.failed) => job.alive

\* C19: when the delivery of a new-offers notification failed and nothing
\* else of the run raised, the run has not failed, has sent no alert, and
\* what its reconciliation committed is kept.
C19_NotificationFailureKept ==
    (job.lost > 0 /\ \A i \in 1..Len(job.raisedAt) : job.raisedAt[i] = "notify") =>
        /\ ~job.failed
        /\ job.alerts = 0
        /\ job.committed
        /\ job.end # "raised"

\* A run that committed its reconciliation, lost its notification and
\* returned.
C19_Witness ==
    /\ job.end = "returned"
    /\ job.lost > 0
    /\ job.committed
    /\ job.raisedAt = <<>>

\* C28: a run dispatches the notification of its new offers at most once,
\* however it ends.
C28_OneNotification == job.sent <= 1

(***************************************************************************)
(* The scripts on one database: every script reads and writes the          *)
(* collection it names, whoever wrote the documents in it.                 *)
(***************************************************************************)
MaxPasses == 2

Collections == {CollectionOf(p) : p \in Pipelines}

\* The script that wrote each document of a collection after a run of p
\* that turned the collection from before into after.
Writers(p, origin, before, after) ==
    [id \in DOMAIN after |->
        IF id \in DOMAIN before /\ id \in DOMAIN origin THEN origin[id] ELSE p]

\* The database after the run r of p: deletedForeign tells that the run
\* deleted a document another script wrote, keptForeign that it found one
\* in its collection and took it for its own.
Passed(p, c, r) ==
    /\ r.clock <= MaxClock
    /\ shared' =
          [kind |-> "database",
           colls |-> [shared.colls EXCEPT ![c] = r.store],
           origin |-> [shared.origin EXCEPT
                          ![c] = Writers(p, @, shared.colls[c], r.store)],
           clock |-> r.clock,
           passes |-> shared.passes + 1,
           deletedForeign |->
               \/ shared.deletedForeign
               \/ \E id \in DOMAIN shared.colls[c] \ DOMAIN r.store :
                     shared.origin[c][id] # p,
           keptForeign |->
               \/ shared.keptForeign
               \/ \E id \in DOMAIN shared.colls[c] \cap DOMAIN r.store :
                     /\ shared.origin[c][id] # p
                     /\ \E i \in 1..Len(r.games) : GameId(p, r.games[i]) = id]

SharedInit ==
    /\ pipeline = "prime"
    /\ store = EmptyStore
    /\ clock = 0
    /\ last = Idle
    /\ query = NoQuery
    /\ limiter = NoLimiter
    /\ job = NoJob
    /\ subs = NoSubs
    /\ over = NoOverlap
    /\ element = NoElement
    /\ scroll = NoScroll
    /\ mail = NoMail
    /\ news = NoNews
    /\ shared = [kind |-> "database",
                 colls |-> [c \in Collections |-> EmptyStore],
                 origin |-> [c \in Collections |-> EmptyStore],
                 clock |-> 0, passes |-> 0,
                 deletedForeign |-> FALSE, keptForeign |-> FALSE]

\* One run of the script p on the database.
Pass(p) ==
    /\ shared.passes < MaxPasses
    /\ \E page \in Pages(p) :
          Passed(p, CollectionOf(p),
                 Run(p, page, shared.colls[CollectionOf(p)], shared.clock, NoFault))
    /\ UNCHANGED sharedFrame

PassPrime == Pass("prime")
PassSteam == Pass("steam")
PassGogGiveaway == Pass("gog_giveaway")
PassGogCollection == Pass("gog_collection")
PassGog == Pass("gog")
PassEpic == Pass("epic")

SharedNext ==
    \/ PassPrime
    \/ PassSteam
    \/ PassGogGiveaway
    \/ PassGogCollection
    \/ PassGog
    \/ PassEpic

SpecShared == SharedInit /\ [][SharedNext]_vars

\* C18: no run of a script deletes, or finds in its collection and keeps as
\* its own, a document that another script wrote.
C18_DisjointCollections ==
    shared.kind = "database" => ~shared.deletedForeign /\ ~shared.keptForeign

(***************************************************************************)
(* newsletter_new_games.py: the job that mails the offers added since its  *)
(* last run.  Time is counted in days.                                     *)
(***************************************************************************)
MaxNow == 3
MaxSubscribers == 2
\* self.monthly_limit = 3000 of MailCounter, scaled down.
monthly_limit == 2
\* timedelta(hours=24)
FALLBACK_DAYS == 1

Min(a, b) == IF a < b THEN a ELSE b

\* fetch_last_run_time(): the stored checkpoint, or 24 hours ago.  The
\* checkpoint is the set of the values of last_run_time in the document
\* config/newGamesNewsletter: empty as long as none was written.
fetch_last_run_time(checkpoint, now) ==
    IF checkpoint = {} THEN now - FALLBACK_DAYS ELSE CHOOSE t \in checkpoint : TRUE

\* build_new_games_list(last_run_time): createdAt > last_run_time.
build_new_games_list(offers, last_run_time) == {t \in offers : t > last_run_time}

\* MailCounter.increment(count): what it grants and the counter after it.
\* The days of a behaviour lie in one month: check_monthly_reset() finds
\* nothing to reset.
increment(current_count, count) ==
    LET can_send == Min(count, monthly_limit - current_count)
    IN  IF can_send <= 0 THEN [can_send_count |-> 0, current_count |-> current_count]
        ELSE [can_send_count |-> can_send, current_count |-> current_count + can_send]

\* send_new_games_email(...): TRUE when the mail was handed to the SMTP
\* server; without credentials it returns at once, and what smtplib raises
\* is logged.
send_new_games_email(credentials, smtp_ok) == credentials /\ smtp_ok

\* The loop over the subscribers: rendered tells how many iterations pass
\* template.render before it raises (granted: it never does).
SentAny(granted, rendered) == rendered >= 1 /\ granted >= 1

\* The run after the mail counter granted `granted` mails.
Mailed(n, last_run_time, new_games, inc, rendered, credentials, delivered) ==
    LET raised == rendered < inc.can_send_count
        write == ~raised /\ SentAny(inc.can_send_count, rendered)
    IN  news' = [news EXCEPT
                   !.current_count = inc.current_count,
                   !.checkpoint = IF write THEN {news.now} ELSE @,
                   !.runs = @ + 1,
                   !.run = [read |-> last_run_time, new_games |-> new_games,
                            subscribers |-> n, granted |-> inc.can_send_count,
                            dispatched |->
                                Cardinality({i \in 1..Min(rendered, inc.can_send_count) :
                                    send_new_games_email(credentials, delivered[i])}),
                            raised |-> raised, wrote |-> write,
                            before |-> news.checkpoint]]

\* The run that returns before it reaches the subscribers.
Returned(last_run_time, new_games) ==
    news' = [news EXCEPT
               !.runs = @ + 1,
               !.run = [read |-> last_run_time, new_games |-> new_games,
                        subscribers |-> 0, granted |-> 0, dispatched |-> 0,
                        raised |-> FALSE, wrote |-> FALSE,
                        before |-> news.checkpoint]]

NoRun ==
    [read |-> 0, new_games |-> {}, subscribers |-> 0, granted |-> 0,
     dispatched |-> 0, raised |-> FALSE, wrote |-> FALSE, before |-> {}]

MaxNewsRuns == 3

NewsInit ==
    /\ pipeline = "prime"
    /\ store = EmptyStore
    /\ clock = 0
    /\ last = Idle
    /\ query = NoQuery
    /\ limiter = NoLimiter
    /\ job = NoJob
    /\ subs = NoSubs
    /\ over = NoOverlap
    /\ element = NoElement
    /\ scroll = NoScroll
    /\ mail = NoMail
    /\ shared = NoShared
    /\ news = [kind |-> "newsletter", now |-> 0, offers |-> {}, checkpoint |-> {},
               current_count |-> 0, runs |-> 0, run |-> NoRun]

\* A day passes.
NewsTick ==
    /\ news.now < MaxNow
    /\ news' = [news EXCEPT !.now = @ + 1]
    /\ UNCHANGED newsFrame

\* A scraper adds an offer, createdAt being now.
OfferAdded ==
    /\ news.now \notin news.offers
    /\ news' = [news EXCEPT !.offers = @ \cup {news.now}]
    /\ UNCHANGED newsFrame

\* run_new_games_newsletter() with n eligible subscribers.
run_new_games_newsletter ==
    /\ news.runs < MaxNewsRuns
    /\ \E n \in 0..MaxSubscribers, credentials \in BOOLEAN,
          delivered \in [1..MaxSubscribers -> BOOLEAN], rendered \in 0..MaxSubscribers :
          IF build_new_games_list(news.offers,
                                  fetch_last_run_time(news.checkpoint, news.now)) = {}
          THEN Returned(fetch_last_run_time(news.checkpoint, news.now), {})
          ELSE IF increment(news.current_count, n).can_send_count = 0
          THEN Returned(fetch_last_run_time(news.checkpoint, news.now),
                        build_new_games_list(news.offers,
                            fetch_last_run_time(news.checkpoint, news.now)))
          ELSE Mailed(n, fetch_last_run_time(news.checkpoint, news.now),
                      build_new_games_list(news.offers,
                          fetch_last_run_time(news.checkpoint, news.now)),
                      increment(news.current_count, n), rendered, credentials, delivered)
    /\ UNCHANGED newsFrame

NewsNext ==
    \/ NewsTick
    \/ OfferAdded
    \/ run_new_games_newsletter

SpecNews == NewsInit /\ [][NewsNext]_vars

\* C20: the newsletter job writes last_run_time only in a run that
\* dispatched at least one mail: without new offers, without eligible
\* subscribers, with nothing granted by the monthly cap or without any mail
\* sent, the checkpoint is the one the run found.
C20_Checkpoint ==
    (news.kind = "newsletter" /\ news.runs > 0) =>
        /\ news.run.wrote => news.run.dispatched >= 1
        /\ (\/ news.run.new_games = {}
            \/ news.run.subscribers = 0
            \/ news.run.granted = 0
            \/ news.run.dispatched = 0) => ~news.run.wrote

(***************************************************************************)
(* mail_counter.py: newsletter.py and newsletter_new_games.py each build   *)
(* their own MailCounter over static_data/mail_counter.json.  A month is   *)
(* the number of the calendar month of datetime.now().                     *)
(***************************************************************************)
MaxMonth == 1
MaxCount == 3

Jobs == {"weekly", "new_games"}

\* reset_counter(): current_count = 0, last_reset = now.
reset_counter(month) == [built |-> TRUE, current_count |-> 0, last_reset |-> month]

\* load_counter(): the values of the file, or reset_counter() without one.
load_counter(file, month) ==
    IF file.exists
    THEN [built |-> TRUE, current_count |-> file.count, last_reset |-> file.last_reset]
    ELSE reset_counter(month)

\* check_monthly_reset(): a new month resets the counter.
check_monthly_reset(c, month) ==
    IF c.last_reset # month THEN reset_counter(month) ELSE c

\* The second result of increment(count): True only on its last return.
all_can_send(current_count, count) ==
    /\ Min(count, monthly_limit - current_count) > 0
    /\ ~(Min(count, monthly_limit - current_count) < count)

\* save_counter(): the file holds the object's count and last_reset.
save_counter(c) == [exists |-> TRUE, count |-> c.current_count, last_reset |-> c.last_reset]

NoCall ==
    [job |-> "none", count |-> 0, granted |-> 0, all |-> FALSE, before |-> 0,
     after |-> 0, reset |-> FALSE, calls |-> 0]

MailInit ==
    /\ pipeline = "prime"
    /\ store = EmptyStore
    /\ clock = 0
    /\ last = Idle
    /\ query = NoQuery
    /\ limiter = NoLimiter
    /\ job = NoJob
    /\ subs = NoSubs
    /\ over = NoOverlap
    /\ element = NoElement
    /\ scroll = NoScroll
    /\ shared = NoShared
    /\ news = NoNews
    /\ mail = [kind |-> "counter", month |-> 0,
               file |-> [exists |-> FALSE, count |-> 0, last_reset |-> 0],
               counters |-> [j \in Jobs |->
                               [built |-> FALSE, current_count |-> 0, last_reset |-> 0]],
               sum |-> [j \in Jobs |-> 0],
               call |-> NoCall]

\* mail_counter = MailCounter() when the module of the job j is imported.
Construct ==
    \E j \in Jobs :
       /\ ~mail.counters[j].built
       /\ mail' = [mail EXCEPT
                     !.counters[j] = load_counter(mail.file, mail.month),
                     !.file = IF mail.file.exists THEN @
                              ELSE save_counter(reset_counter(mail.month))]
       /\ UNCHANGED mailFrame

\* The object c of the job j after increment(count), c being the object
\* after check_monthly_reset().
Incremented(j, count, c, was) ==
    mail' = [mail EXCEPT
               !.counters[j] = [c EXCEPT !.current_count =
                                   increment(c.current_count, count).current_count],
               !.file = IF increment(c.current_count, count).can_send_count > 0
                        THEN save_counter([c EXCEPT !.current_count =
                                 increment(c.current_count, count).current_count])
                        ELSE IF c # was THEN save_counter(c) ELSE @,
               !.sum[j] = @ + increment(c.current_count, count).can_send_count,
               !.call = [job |-> j, count |-> count,
                         granted |-> increment(c.current_count, count).can_send_count,
                         all |-> all_can_send(c.current_count, count),
                         before |-> c.current_count,
                         after |-> increment(c.current_count, count).current_count,
                         reset |-> c # was,
                         calls |-> IF mail.call.calls < MaxCount THEN mail.call.calls + 1
                                   ELSE MaxCount]]

\* mail_counter.increment(subscriber_count) of the job j.
Increment ==
    \E j \in Jobs, count \in 0..MaxCount :
       /\ mail.counters[j].built
       /\ Incremented(j, count, check_monthly_reset(mail.counters[j], mail.month),
                      mail.counters[j])
       /\ UNCHANGED mailFrame

\* The next calendar month begins; sum counts the mails granted in the
\* current month.
MonthPasses ==
    /\ mail.month < MaxMonth
    /\ mail' = [mail EXCEPT !.month = @ + 1, !.sum = [j \in Jobs |-> 0],
                            !.call = NoCall]
    /\ UNCHANGED mailFrame

MailNext ==
    \/ Construct
    \/ Increment
    \/ MonthPasses

SpecMail == MailInit /\ [][MailNext]_vars

\* C21: the mails granted to the weekly job and to the new-games job in one
\* calendar month are together at most monthly_limit.
C21_MonthlyCap ==
    mail.kind = "counter" => mail.sum["weekly"] + mail.sum["new_games"] <= monthly_limit

\* C29: a MailCounter keeps 0 <= current_count <= monthly_limit; a call of
\* increment(count) grants g with 0 <= g <= count and g at most the quota
\* left before the call, adds exactly g to current_count, and returns True
\* as its second result exactly when g = count; what one object grants in a
\* month is at most monthly_limit.
C29_MailCounter ==
    mail.kind = "counter" =>
        /\ \A j \in Jobs :
              /\ mail.counters[j].current_count >= 0
              /\ mail.counters[j].current_count <= monthly_limit
              /\ mail.sum[j] <= monthly_limit
        /\ mail.call.job # "none" =>
              /\ mail.call.granted >= 0
              /\ mail.call.granted <= mail.call.count
              /\ mail.call.granted <= monthly_limit - mail.call.before
              /\ mail.call.after = mail.call.before + mail.call.granted
              /\ mail.call.all <=> (mail.call.granted = mail.call.count)

(***************************************************************************)
(* The scroll-to-load loops.  The page shows Step more candidates to each  *)
(* of the first N readings of a loop and then no more: the reading of      *)
(* iteration i is Step * min(i, N).                                        *)
(***************************************************************************)
MaxN == 3
MaxScrolls == 4
MaxGrowth == 2

Loops == {"scroll_until_stable", "natural_scroll", "scrape_gog", "pagedown_scroll"}

\* What the loop reads at its iteration i.
Reading(s, i) == s.step * Min(i, s.N)

\* scroll_until_stable of crawler.py reads the count and stops when it is
\* the previous one; natural_scroll of scraper_utils.py presses PageDown,
\* reads the count and stops when it did not grow; the loops of gog.py and
\* of pagedown_scroll only scroll.
Stops(s, current_count) ==
    CASE s.loop = "scroll_until_stable" -> current_count = s.previous_count
      [] s.loop = "natural_scroll" -> ~(current_count > s.previous_count)
      [] OTHER -> FALSE

\* One iteration of the loop: for scroll in range(max_scrolls).
Iterated(s, current_count) ==
    [s EXCEPT !.iteration = @ + 1,
              !.previous_count = IF Stops(s, current_count) THEN @ ELSE current_count,
              !.current_count = current_count,
              !.done = Stops(s, current_count) \/ s.iteration + 1 = s.max_scrolls]

ScrollInit ==
    /\ pipeline = "prime"
    /\ store = EmptyStore
    /\ clock = 0
    /\ last = Idle
    /\ query = NoQuery
    /\ limiter = NoLimiter
    /\ job = NoJob
    /\ subs = NoSubs
    /\ over = NoOverlap
    /\ element = NoElement
    /\ shared = NoShared
    /\ news = NoNews
    /\ mail = NoMail
    /\ \E loop \in Loops, n \in 0..MaxN, cap \in 1..MaxScrolls, step \in 1..MaxGrowth :
          scroll = [kind |-> "loop", loop |-> loop, N |-> n, max_scrolls |-> cap,
                    step |-> step, iteration |-> 0, previous_count |-> 0,
                    current_count |-> 0, done |-> FALSE]

ScrollStep ==
    /\ scroll.kind = "loop"
    /\ ~scroll.done
    /\ scroll' = Iterated(scroll, Reading(scroll, scroll.iteration + 1))
    /\ UNCHANGED scrollFrame

ScrollNext == ScrollStep

SpecScroll == ScrollInit /\ [][ScrollNext]_vars

\* C23: a scroll loop never runs more than max_scrolls iterations, and on a
\* page whose count grows for N iterations and then stays it ends with
\* iteration N + 1, unless N + 1 exceeds max_scrolls.
C23_ScrollTermination ==
    scroll.kind = "loop" =>
        /\ scroll.iteration <= scroll.max_scrolls
        /\ (scroll.done /\ scroll.N + 1 <= scroll.max_scrolls) =>
              scroll.iteration = scroll.N + 1
        /\ (~scroll.done) => scroll.iteration <= scroll.N

(***************************************************************************)
(* The title of one candidate: reads[i] is what the i-th read of the       *)
(* element's title would return, the page rendering while the script       *)
(* waits.  Every script reads the title in one statement.                  *)
(***************************************************************************)
MaxReads == 3

TitleReads == {Timeout, Text(<<"B">>), Text(ALPHA)}

ElementInit ==
    /\ pipeline = "prime"
    /\ store = EmptyStore
    /\ clock = 0
    /\ last = Idle
    /\ query = NoQuery
    /\ limiter = NoLimiter
    /\ job = NoJob
    /\ subs = NoSubs
    /\ over = NoOverlap
    /\ shared = NoShared
    /\ news = NoNews
    /\ mail = NoMail
    /\ scroll = NoScroll
    /\ \E p \in Pipelines, reads \in [1..MaxReads -> TitleReads] :
          element = [kind |-> "element", p |-> p, reads |-> reads, attempts |-> 0,
                     title |-> <<>>, done |-> FALSE]

\* title = await title_element.inner_text(timeout=...) in its try block.
ReadTitle ==
    /\ element.kind = "element"
    /\ ~element.done
    /\ element' = [element EXCEPT !.attempts = @ + 1,
                                  !.title = ExtractTitle(element.p, element.reads[1]),
                                  !.done = TRUE]
    /\ UNCHANGED elementFrame

ElementNext == ReadTitle

SpecElement == ElementInit /\ [][ElementNext]_vars

\* The first read of the element that returns a text, 0 if none does.
FirstText(reads) ==
    IF \A i \in 1..MaxReads : reads[i].k # "text" THEN 0
    ELSE CHOOSE i \in 1..MaxReads :
            /\ reads[i].k = "text"
            /\ \A k \in 1..(i - 1) : reads[k].k # "text"

\* C24: the title of a candidate is the text of the first of up to 3 reads
\* that succeeds, and "Unknown Title" only after the third read failed.
C24_TitleRetry ==
    (element.kind = "element" /\ element.done) =>
        IF FirstText(element.reads) = 0
        THEN element.title = UNKNOWN_TITLE /\ element.attempts = MaxReads
        ELSE /\ element.title = Strip(element.reads[FirstText(element.reads)].v)
             /\ element.attempts = FirstText(element.reads)

(***************************************************************************)
(* The pass of a script over its collection, store call by store call,     *)
(* run by two requests of /run/<task> at a time.  A batch of this part     *)
(* names every offer once, as its id.                                      *)
(***************************************************************************)
Offers == <<"a", "b">>

OfferIds == {Offers[i] : i \in DOMAIN Offers}

Requests == {"first", "second"}

\* The batches: the offers of the page in some order, none twice.
Batches ==
    {s \in UNION {[1..n -> OfferIds] : n \in 0..Len(Offers)} :
        \A i, k \in DOMAIN s : i # k => s[i] # s[k]}

\* if game_id not in existing_games, as a test on the collection itself.
Known_reread(existing_games, coll, game_id) == game_id \in DOMAIN coll

\* if game_id not in existing_games
Known(existing_games, coll, game_id) == game_id \in existing_games

NewPass ==
    [pc |-> "idle", existing_games |-> {}, i |-> 1, notify_games |-> {},
     reads |-> 0, writes |-> 0, lateRead |-> FALSE, decided |-> {}]

OverlapInit ==
    /\ pipeline = "prime"
    /\ store = EmptyStore
    /\ clock = 0
    /\ last = Idle
    /\ query = NoQuery
    /\ limiter = NoLimiter
    /\ job = NoJob
    /\ subs = NoSubs
    /\ shared = NoShared
    /\ news = NoNews
    /\ mail = NoMail
    /\ scroll = NoScroll
    /\ element = NoElement
    /\ \E persisted \in SUBSET OfferIds, games_data \in Batches :
          over = [kind |-> "overlap",
                  coll |-> [id \in persisted |-> 0],
                  clock |-> 1,
                  games_data |-> games_data,
                  stamps |-> [id \in OfferIds |-> {}],
                  added |-> {},
                  deletedAdded |-> FALSE,
                  passes |-> [r \in Requests |-> NewPass]]

\* existing_games_snapshot = collection_ref.stream() and the loop that
\* copies it into existing_games.
Stream(r) ==
    /\ over.kind = "overlap"
    /\ over.passes[r].pc = "idle"
    /\ over' = [over EXCEPT
                  !.passes[r].pc = "loop",
                  !.passes[r].existing_games = DOMAIN over.coll,
                  !.passes[r].reads = @ + 1,
                  !.passes[r].lateRead = over.passes[r].writes > 0]
    /\ UNCHANGED overFrame

\* The document of game_id after collection_ref.document(game_id).set(game).
SetGame(coll, game_id, createdAt) ==
    [id \in DOMAIN coll \cup {game_id} |-> IF id = game_id THEN createdAt ELSE coll[id]]

\* One iteration of `for game in games_data` whose game has the id game_id.
Decided(r, game_id, known) ==
    over' = [over EXCEPT
               !.coll = IF known THEN @ ELSE SetGame(@, game_id, over.clock),
               !.clock = IF known THEN @ ELSE @ + 1,
               !.stamps[game_id] = IF known THEN @ ELSE @ \cup {over.clock},
               !.added = IF known THEN @ ELSE @ \cup {game_id},
               !.passes[r].i = @ + 1,
               !.passes[r].writes = IF known THEN @ ELSE @ + 1,
               !.passes[r].notify_games = IF known THEN @ ELSE @ \cup {game_id},
               !.passes[r].existing_games = @ \ {game_id},
               !.passes[r].decided =
                   @ \cup {[game_id |-> game_id,
                            kind |-> IF known THEN "keep" ELSE "add",
                            listed |-> game_id \in over.passes[r].existing_games]}]

AddOrKeepOne(r) ==
    /\ over.kind = "overlap"
    /\ over.passes[r].pc = "loop"
    /\ over.passes[r].i <= Len(over.games_data)
    /\ Decided(r, over.games_data[over.passes[r].i],
               Known(over.passes[r].existing_games, over.coll,
                     over.games_data[over.passes[r].i]))
    /\ UNCHANGED overFrame

\* The first of the ids left in existing_games, in the order of the stream.
FirstLeft(existing_games) ==
    Offers[CHOOSE i \in DOMAIN Offers :
              /\ Offers[i] \in existing_games
              /\ \A k \in 1..(i - 1) : Offers[k] \notin existing_games]

\* One iteration of `for game_id, game_data in existing_games.items()`:
\* collection_ref.document(game_id).delete()
Deleted(r, game_id) ==
    over' = [over EXCEPT
               !.coll = [id \in DOMAIN @ \ {game_id} |-> @[id]],
               !.deletedAdded = @ \/ (game_id \in over.added
                                      /\ game_id \in DOMAIN over.coll),
               !.passes[r].writes = @ + 1,
               !.passes[r].existing_games = @ \ {game_id},
               !.passes[r].decided =
                   @ \cup {[game_id |-> game_id, kind |-> "remove",
                            listed |-> game_id \in over.passes[r].existing_games]}]

DeleteOne(r) ==
    /\ over.kind = "overlap"
    /\ over.passes[r].pc = "loop"
    /\ over.passes[r].i > Len(over.games_data)
    /\ over.passes[r].existing_games # {}
    /\ Deleted(r, FirstLeft(over.passes[r].existing_games))
    /\ UNCHANGED overFrame

\* print('Firestore database updated successfully.')
Updated(r) ==
    /\ over.kind = "overlap"
    /\ over.passes[r].pc = "loop"
    /\ over.passes[r].i > Len(over.games_data)
    /\ over.passes[r].existing_games = {}
    /\ over' = [over EXCEPT !.passes[r].pc = "done"]
    /\ UNCHANGED overFrame

OverlapNext ==
    \E r \in Requests :
       \/ Stream(r)
       \/ AddOrKeepOne(r)
       \/ DeleteOne(r)
       \/ Updated(r)

SpecOverlap == OverlapInit /\ [][OverlapNext]_vars

\* C22: a pass reads the collection once, before any of its writes and
\* deletes, and every decision it takes is the one its existing_games
\* gives: an id is added only when it is not listed there, kept or removed
\* only when it is.
C22_SingleSnapshot ==
    over.kind = "overlap" =>
        \A r \in Requests :
           /\ over.passes[r].reads <= 1
           /\ ~over.passes[r].lateRead
           /\ over.passes[r].writes > 0 => over.passes[r].reads = 1
           /\ \A d \in over.passes[r].decided :
                 (d.kind = "add") <=> ~d.listed

\* Both requests decided on an offer that one of them had added after the
\* other had read the collection.
C22_Witness ==
    /\ over.kind = "overlap"
    /\ \A r \in Requests : over.passes[r].pc = "done"
    /\ \E id \in OfferIds :
          \A r \in Requests : [game_id |-> id, kind |-> "add", listed |-> FALSE]
                                 \in over.passes[r].decided

\* C26: when two passes over one collection overlap, a new offer is written
\* with one createdAt and is in the notify list of at most one of them, and
\* no pass deletes a document the other one added.
C26_OverlappingPasses ==
    over.kind = "overlap" =>
        /\ \A id \in OfferIds : Cardinality(over.stamps[id]) <= 1
        /\ over.passes["first"].notify_games \cap over.passes["second"].notify_games = {}
        /\ ~over.deletedAdded

\* C25: when candidates of one batch share an id, a completed pass lists the
\* id at most once in its notify list and writes its document at most once
\* if the id was not persisted, and neither writes nor lists it if it was
\* persisted when the pass read the collection.
C25_DuplicateIds ==
    last.run.reconciled =>
        /\ \A i, k \in DOMAIN last.run.notify :
              i # k => GameId(pipeline, last.run.notify[i])
                          # GameId(pipeline, last.run.notify[k])
        /\ \A i \in DOMAIN last.run.notify :
              GameId(pipeline, last.run.notify[i]) \notin DOMAIN last.before
        /\ last.run.sets <= Cardinality(BatchIds \ DOMAIN last.before)

(***************************************************************************)
(* The new-games newsletter next to the scrapers: the run reads            *)
(* last_run_time and queries the collections, and writes the checkpoint at *)
(* its end; a scraper may persist an offer in between.                     *)
(***************************************************************************)
StepsInit ==
    /\ pipeline = "prime"
    /\ store = EmptyStore
    /\ clock = 0
    /\ last = Idle
    /\ query = NoQuery
    /\ limiter = NoLimiter
    /\ job = NoJob
    /\ subs = NoSubs
    /\ shared = NoShared
    /\ mail = NoMail
    /\ scroll = NoScroll
    /\ element = NoElement
    /\ over = NoOverlap
    /\ news = [kind |-> "newsletter", now |-> 0, offers |-> {}, checkpoint |-> {},
               current_count |-> 0, runs |-> 0, run |-> NoRun,
               asked |-> 0, list |-> [read |-> 0, new_games |-> {}],
               listed |-> {}, owed |-> {}]

\* A run is between its query and its end.
Querying == news.kind = "newsletter" /\ news.asked > news.runs

\* crawler.py: game['createdAt'] = datetime.now(timezone.utc) and set(game).
\* owed keeps the offers persisted with createdAt later than the stored
\* last_run_time.
OfferPersisted ==
    /\ news.now \notin news.offers
    /\ news' = [news EXCEPT
                  !.offers = @ \cup {news.now},
                  !.owed = IF news.checkpoint # {}
                              /\ news.now > fetch_last_run_time(news.checkpoint, news.now)
                           THEN @ \cup {news.now} ELSE @]
    /\ UNCHANGED newsFrame

\* last_run_time = fetch_last_run_time()
\* new_games = build_new_games_list(last_run_time)
NewsQuery ==
    /\ ~Querying
    /\ news.runs < MaxNewsRuns
    /\ news' = [news EXCEPT
                  !.asked = @ + 1,
                  !.list = [read |-> fetch_last_run_time(news.checkpoint, news.now),
                            new_games |->
                                build_new_games_list(news.offers,
                                    fetch_last_run_time(news.checkpoint, news.now))],
                  !.listed = @ \cup build_new_games_list(news.offers,
                                        fetch_last_run_time(news.checkpoint, news.now))]
    /\ UNCHANGED newsFrame

\* The rest of run_new_games_newsletter(): the subscribers, the mail
\* counter, the mails and update_last_run_time(now_utc).
NewsSend ==
    /\ Querying
    /\ \E n \in 0..MaxSubscribers, credentials \in BOOLEAN,
          delivered \in [1..MaxSubscribers -> BOOLEAN], rendered \in 0..MaxSubscribers :
          IF news.list.new_games = {}
          THEN Returned(news.list.read, {})
          ELSE IF increment(news.current_count, n).can_send_count = 0
          THEN Returned(news.list.read, news.list.new_games)
          ELSE Mailed(n, news.list.read, news.list.new_games,
                      increment(news.current_count, n), rendered, credentials, delivered)
    /\ UNCHANGED newsFrame

StepsNext ==
    \/ NewsTick
    \/ OfferPersisted
    \/ NewsQuery
    \/ NewsSend

SpecNewsSteps == StepsInit /\ [][StepsNext]_vars

\* C27: an offer persisted with createdAt later than the stored
\* last_run_time has been in the offer list of a newsletter run once
\* last_run_time is at or past its createdAt.
C27_NoOfferSkipped ==
    (news.kind = "newsletter" /\ news.checkpoint # {}) =>
        \A t \in news.offers :
           (t \in news.owed /\ t <= fetch_last_run_time(news.checkpoint, news.now))
               => t \in news.listed

\* ---------------------------------------------------------------------
\* The subscriber collection (app.py, cleanup.py, delete_subscriber.py)
\* and the two newsletter jobs that read it (newsletter.py,
\* newsletter_new_games.py).
\*
\* A document of newsletter_subscribers is [email, frequency,
\* confirm_token, confirmed]; createdAt and confirmedAt are left out, the
\* age cleanup.py tests is an input of Cleanup.  Firestore's automatic
\* document ids and uuid.uuid4() are fresh values: the n-th document gets
\* the id n and the token n.  subs.call is the last request and
\* subs.before the collection before it; subs.run is the newsletter run
\* in progress: the job, the collection as it was read, the subscribers
\* still to be mailed and those mailed already.
\* ---------------------------------------------------------------------

\* Documents ever created.
MaxDocs == 2

\* Well-formed addresses; "" stands for what EMAIL_REGEX rejects.
Emails == {"x@y.z"}

Frequencies == {"weekly", "newgame", "both"}

\* The values the forms and links can carry.
EmailInputs == Emails \cup {""}
FrequencyInputs == Frequencies \cup {"", "daily"}
TokenInputs == 0..MaxDocs

is_valid_email(email) == email \in Emails

\* email_exists(email): FALSE also when the query raises.
email_exists(docs, email, raises) ==
    ~raises /\ \E d \in DOMAIN docs : docs[d].email = email

\* The .where("frequency", "in", [...]) of each job.
Wanted(j) == IF j = "weekly" THEN {"weekly", "both"} ELSE {"newgame", "both"}

\* The subscribers query of the two jobs.
Subscribers(docs, j) ==
    {d \in DOMAIN docs : docs[d].frequency \in Wanted(j) /\ docs[d].confirmed}

\* A confirmation query that leaves the token out.
ToConfirm_any(docs, token) == {d \in DOMAIN docs : ~docs[d].confirmed}

\* The query of confirm_subscription(token).
ToConfirm(docs, token) ==
    {d \in DOMAIN docs : docs[d].confirm_token = token /\ ~docs[d].confirmed}

\* The query of unsubscribe(token) and change_frequency(token).
WithToken(docs, token) == {d \in DOMAIN docs : docs[d].confirm_token = token}

\* The collection without the documents of D.
Without(docs, D) == [d \in DOMAIN docs \ D |-> docs[d]]

\* The orders in which stream() can return the documents of S.
Orders(S) ==
    {o \in [1..Cardinality(S) -> S] : \A i, k \in 1..Cardinality(S) : i # k => o[i] # o[k]}

NoMailing == [job |-> "none", read |-> <<>>, list |-> <<>>, mailed |-> {}]

SubsInit ==
    /\ pipeline = "prime"
    /\ store = EmptyStore
    /\ clock = 0
    /\ last = Idle
    /\ query = NoQuery
    /\ limiter = NoLimiter
    /\ job = NoJob
    /\ shared = NoShared
    /\ news = NoNews
    /\ mail = NoMail
    /\ scroll = NoScroll
    /\ element = NoElement
    /\ over = NoOverlap
    /\ subs = [kind |-> "subscribers", docs |-> <<>>, next |-> 1,
               call |-> [op |-> "none", token |-> 0], before |-> <<>>,
               run |-> NoMailing]

\* The collection after a request op(token) has left it as docs.
Requested(op, token, docs) ==
    [subs EXCEPT !.call = [op |-> op, token |-> token],
                 !.before = subs.docs,
                 !.docs = docs]

\* subscribe(): a new unconfirmed document with a fresh token, unless the
\* address or the frequency is rejected or the address is known.
subscribe(email, frequency, raises) ==
    IF \/ ~is_valid_email(email)
       \/ frequency \notin Frequencies
       \/ email_exists(subs.docs, email, raises)
    THEN Requested("subscribe", 0, subs.docs)
    ELSE [Requested("subscribe", 0,
                    [d \in DOMAIN subs.docs \cup {subs.next} |->
                        IF d = subs.next
                        THEN [email |-> email, frequency |-> frequency,
                              confirm_token |-> subs.next, confirmed |-> FALSE]
                        ELSE subs.docs[d]])
          EXCEPT !.next = subs.next + 1]

Subscribe ==
    /\ subs.kind = "subscribers"
    /\ subs.next <= MaxDocs
    /\ \E email \in EmailInputs, frequency \in FrequencyInputs, raises \in BOOLEAN :
          subs' = subscribe(email, frequency, raises)
    /\ UNCHANGED subsFrame

\* confirm_subscription(token): the first document of the query is
\* confirmed, the loop ends there.
ConfirmSubscription ==
    /\ subs.kind = "subscribers"
    /\ \E token \in TokenInputs :
          IF ToConfirm(subs.docs, token) = {}
          THEN subs' = Requested("confirm_subscription", token, subs.docs)
          ELSE \E d \in ToConfirm(subs.docs, token) :
                  subs' = Requested("confirm_subscription", token,
                                    [subs.docs EXCEPT ![d].confirmed = TRUE])
    /\ UNCHANGED subsFrame

\* unsubscribe(token): the first document with the token is deleted.
Unsubscribe ==
    /\ subs.kind = "subscribers"
    /\ \E token \in TokenInputs :
          IF WithToken(subs.docs, token) = {}
          THEN subs' = Requested("unsubscribe", token, subs.docs)
          ELSE \E d \in WithToken(subs.docs, token) :
                  subs' = Requested("unsubscribe", token, Without(subs.docs, {d}))
    /\ UNCHANGED subsFrame

\* change_frequency(token), POST: the first document with the token gets
\* the new frequency if it is one of the three.
ChangeFrequency ==
    /\ subs.kind = "subscribers"
    /\ \E token \in TokenInputs, new_freq \in FrequencyInputs :
          IF new_freq \notin Frequencies \/ WithToken(subs.docs, token) = {}
          THEN subs' = Requested("change_frequency", token, subs.docs)
          ELSE \E d \in WithToken(subs.docs, token) :
                  subs' = Requested("change_frequency", token,
                                    [subs.docs EXCEPT ![d].frequency = new_freq])
    /\ UNCHANGED subsFrame

\* cleanup_unconfirmed_subscribers(): the unconfirmed documents older
\* than seven days (old) are deleted.
Cleanup ==
    /\ subs.kind = "subscribers"
    /\ \E old \in SUBSET DOMAIN subs.docs :
          subs' = Requested("cleanup", 0,
                            Without(subs.docs, {d \in old : ~subs.docs[d].confirmed}))
    /\ UNCHANGED subsFrame

\* cleanup_by_email(db, email) of delete_subscriber.py.
CleanupByEmail ==
    /\ subs.kind = "subscribers"
    /\ \E email \in EmailInputs :
          subs' = Requested("cleanup_by_email", 0,
                            Without(subs.docs, {d \in DOMAIN subs.docs : subs.docs[d].email = email}))
    /\ UNCHANGED subsFrame

\* A newsletter job reads its subscribers, asks the mail counter (which
\* holds current_count) how many it may mail and keeps that many.
ReadSubscribers ==
    /\ subs.kind = "subscribers"
    /\ subs.run.list = <<>>
    /\ \E j \in Jobs, current_count \in 0..monthly_limit :
          \E subscribers \in Orders(Subscribers(subs.docs, j)) :
             subs' = [Requested(j, 0, subs.docs) EXCEPT
                         !.run = [job |-> j, read |-> subs.docs,
                                  list |-> SubSeq(subscribers, 1,
                                              increment(current_count, Len(subscribers)).can_send_count),
                                  mailed |-> {}]]
    /\ UNCHANGED subsFrame

\* One turn of the loop over the subscribers: the mail to the next one.
MailSubscriber ==
    /\ subs.kind = "subscribers"
    /\ subs.run.list # <<>>
    /\ subs' = [subs EXCEPT !.call = [op |-> "send", token |-> 0],
                            !.before = subs.docs,
                            !.run.list = Tail(subs.run.list),
                            !.run.mailed = subs.run.mailed \cup {Head(subs.run.list)}]
    /\ UNCHANGED subsFrame

SubsNext ==
    \/ Subscribe
    \/ ConfirmSubscription
    \/ Unsubscribe
    \/ ChangeFrequency
    \/ Cleanup
    \/ CleanupByEmail
    \/ ReadSubscribers
    \/ MailSubscriber

SpecSubs == SubsInit /\ [][SubsNext]_vars

\* C30: double opt-in.  Every subscriber a newsletter job has mailed was,
\* in the collection as the job read it, a confirmed document whose
\* frequency the job asks for; a document that is confirmed now and was
\* not before the last request was there before it, and the request was
\* confirm_subscription with that document's own confirm_token; a document
\* that was not there before the last request was written by subscribe and
\* is unconfirmed.
C30_DoubleOptIn ==
    subs.kind = "subscribers" =>
        /\ \A d \in subs.run.mailed :
              /\ d \in DOMAIN subs.run.read
              /\ subs.run.read[d].confirmed
              /\ subs.run.read[d].frequency \in Wanted(subs.run.job)
        /\ \A d \in DOMAIN subs.docs :
              (subs.docs[d].confirmed /\ ~(d \in DOMAIN subs.before /\ subs.before[d].confirmed))
                  => /\ d \in DOMAIN subs.before
                     /\ subs.call = [op |-> "confirm_subscription",
                                     token |-> subs.before[d].confirm_token]
        /\ \A d \in DOMAIN subs.docs \ DOMAIN subs.before :
              subs.call.op = "subscribe" /\ ~subs.docs[d].confirmed

\* A job has mailed one subscriber and, when it read the collection, there
\* was also an unconfirmed document with a frequency it asks for, which it
\* has not mailed.
C30_Witness ==
    /\ subs.kind = "subscribers"
    /\ subs.run.mailed # {}
    /\ \E d \in DOMAIN subs.run.read :
          /\ ~subs.run.read[d].confirmed
          /\ subs.run.read[d].frequency \in Wanted(subs.run.job)
          /\ d \notin subs.run.mailed

=============================================================================
